---- MODULE Spec2Model ----
(***************************************************************************)
(* Model of the xqcL-3d mesh generators:                                   *)
(*   scripts/build_xqcL_coin_parts.js  (voxel parts, base coin, writer)    *)
(*   scripts/build_xqcL_stl.js         (heightmap relief, radial coin)     *)
(*   scripts/inspect_stl.js            (binary STL reader)                 *)
(* Every builder is a synchronous pure computation; each specification     *)
(* below draws a builder's inputs in its initial state and then runs the   *)
(* builder's steps in program order.                                       *)
(***************************************************************************)
EXTENDS Integers, Sequences, FiniteSets, TLC

VARIABLES
    pc,     \* position in the running script
    arg,    \* the numeric parameters of the running builder
    mask,   \* Uint8Array W*H of the voxel part being cleaned (1 = included)
    hist,   \* snapshots of mask: as built, then after every repair step
    log,    \* names of the operations that have run, in order
    V,      \* vertex buffer of the mesh being built
    tris,   \* triangles emitted so far
    buf,    \* output buffer of writeBinarySTL: byte offset -> what was written
    o,      \* write cursor of writeBinarySTL
    loc     \* local variables of the function that is running

vars == <<pc, arg, mask, hist, log, V, tris, buf, o, loc>>

(***************************************************************************)
(* Bounds of the model.                                                    *)
(***************************************************************************)
\* the voxel grid is W x H with W, H >= 1 and at most MaxCells cells
\* (160 x 160 in main)
MaxCells == 9

(***************************************************************************)
(* Voxel masks: a Uint8Array indexed by idx(x, y) = y * W + x.             *)
(***************************************************************************)
idx(Wd, x, y) == y * Wd + x

Masks(Wd, Hd) == [0 .. (Wd * Hd - 1) -> {0, 1}]

\* mask[idx(x, y)] with the bounds guards of removeIsolated / voxelPartSTL:
\* a cell outside the grid counts as not included.
At(m, Wd, Hd, x, y) ==
    IF x >= 0 /\ x < Wd /\ y >= 0 /\ y < Hd THEN m[idx(Wd, x, y)] ELSE 0

\* One visit of the 2x2 block whose top-left cell is (x, y): a, b, c, d are
\* read first, then at most one of the two diagonal cells is cleared.
BreakBlockEarlierCell(m, Wd, x, y) ==
    LET a == m[idx(Wd, x, y)]
        b == m[idx(Wd, x + 1, y)]
        c == m[idx(Wd, x, y + 1)]
        d == m[idx(Wd, x + 1, y + 1)]
    IN  IF a = 1 /\ b = 0 /\ c = 0 /\ d = 1
        THEN [m EXCEPT ![idx(Wd, x, y)] = 0]
        ELSE IF a = 0 /\ b = 1 /\ c = 1 /\ d = 0
        THEN [m EXCEPT ![idx(Wd, x + 1, y)] = 0]
        ELSE m

BreakBlockFirstPatternOnly(m, Wd, x, y) ==
    LET a == m[idx(Wd, x, y)]
        b == m[idx(Wd, x + 1, y)]
        c == m[idx(Wd, x, y + 1)]
        d == m[idx(Wd, x + 1, y + 1)]
    IN  IF a = 1 /\ b = 0 /\ c = 0 /\ d = 1
        THEN [m EXCEPT ![idx(Wd, x + 1, y + 1)] = 0]
        ELSE m

BreakBlock(m, Wd, x, y) ==
    LET a == m[idx(Wd, x, y)]
        b == m[idx(Wd, x + 1, y)]
        c == m[idx(Wd, x, y + 1)]
        d == m[idx(Wd, x + 1, y + 1)]
    IN  IF a = 1 /\ b = 0 /\ c = 0 /\ d = 1
        THEN [m EXCEPT ![idx(Wd, x + 1, y + 1)] = 0]
        ELSE IF a = 0 /\ b = 1 /\ c = 1 /\ d = 0
        THEN [m EXCEPT ![idx(Wd, x, y + 1)] = 0]
        ELSE m

\* Number of 2x2 blocks the scan visits, and the k-th of them in row-major
\* order (y outer, x inner).
NumBlocks(Wd, Hd) == IF Wd < 2 \/ Hd < 2 THEN 0 ELSE (Wd - 1) * (Hd - 1)
BlockX(Wd, k) == k % (Wd - 1)
BlockY(Wd, k) == k \div (Wd - 1)

\* The mask after the in-place scan has visited its first k blocks.
RECURSIVE BreakScan(_, _, _, _)
BreakScan(m, Wd, Hd, k) ==
    IF k = 0 THEN m
    ELSE BreakBlock(BreakScan(m, Wd, Hd, k - 1), Wd,
                    BlockX(Wd, k - 1), BlockY(Wd, k - 1))

breakDiagonalContacts(m, Wd, Hd) == BreakScan(m, Wd, Hd, NumBlocks(Wd, Hd))

\* Included 4-neighbours of (x, y), counted on the mask as it was on entry.
Neighbours(m, Wd, Hd, x, y) ==
    At(m, Wd, Hd, x - 1, y) + At(m, Wd, Hd, x + 1, y)
  + At(m, Wd, Hd, x, y - 1) + At(m, Wd, Hd, x, y + 1)

removeIsolated(m, Wd, Hd) ==
    [i \in DOMAIN m |->
        IF m[i] = 1 /\ Neighbours(m, Wd, Hd, i % Wd, i \div Wd) = 0
        THEN 0 ELSE m[i]]

\* The two forbidden diagonal patterns in the block at (x, y).
DiagonalAt(m, Wd, x, y) ==
    LET a == m[idx(Wd, x, y)]
        b == m[idx(Wd, x + 1, y)]
        c == m[idx(Wd, x, y + 1)]
        d == m[idx(Wd, x + 1, y + 1)]
    IN  \/ a = 1 /\ b = 0 /\ c = 0 /\ d = 1
        \/ a = 0 /\ b = 1 /\ c = 1 /\ d = 0

HasDiagonal(m, Wd, Hd) ==
    \E k \in 0 .. (NumBlocks(Wd, Hd) - 1) :
        DiagonalAt(m, Wd, BlockX(Wd, k), BlockY(Wd, k))

HasIsolated(m, Wd, Hd) ==
    \E i \in DOMAIN m :
        m[i] = 1 /\ Neighbours(m, Wd, Hd, i % Wd, i \div Wd) = 0

(***************************************************************************)
(* The per-class body of main's "Color parts" loop.                        *)
(***************************************************************************)
Idle == <<>>

PartsInit ==
    /\ pc = "removeIsolated"
    /\ \E Wd \in 1 .. MaxCells, Hd \in 1 .. MaxCells :
          /\ Wd * Hd <= MaxCells
          /\ arg = [W |-> Wd, H |-> Hd]
          /\ mask \in Masks(Wd, Hd)
    /\ hist = <<mask>>
    /\ log = <<>>
    /\ V = <<>>
    /\ tris = <<>>
    /\ buf = Idle
    /\ o = 0
    /\ loc = Idle

PartsRemoveIsolated ==
    /\ pc = "removeIsolated"
    /\ mask' = removeIsolated(mask, arg.W, arg.H)
    /\ hist' = Append(hist, mask')
    /\ log' = Append(log, "removeIsolated")
    /\ pc' = "breakDiagonalContacts"
    /\ UNCHANGED <<arg, V, tris, buf, o, loc>>

PartsBreakDiagonalContacts ==
    /\ pc = "breakDiagonalContacts"
    /\ mask' = breakDiagonalContacts(mask, arg.W, arg.H)
    /\ hist' = Append(hist, mask')
    /\ log' = Append(log, "breakDiagonalContacts")
    /\ pc' = "voxelPartSTL"
    /\ UNCHANGED <<arg, V, tris, buf, o, loc>>

(***************************************************************************)
(* Meshes.  An indexed mesh is a vertex buffer V (positions, 0-based        *)
(* indices as in the scripts) and triangles <<a, b, c>> of indices.        *)
(***************************************************************************)
\* V[i] of the scripts (0-based) in a 1-based sequence
Vtx(Vs, i) == Vs[i + 1]

\* The three directed edges of a triangle given by its three corners.
TriEdges(c) == {<<c[1], c[2]>>, <<c[2], c[3]>>, <<c[3], c[1]>>}

DirectedEdges(corners) == UNION {TriEdges(corners[i]) : i \in DOMAIN corners}

\* Zero boundary edges: the 3n directed edges of the n triangles are pairwise
\* different (each occurs in exactly one triangle), none is a loop, and the
\* reverse of each is again one of them (so it occurs in exactly one triangle,
\* and that is another triangle because the corners of one are distinct).
Watertight(corners) ==
    LET E == DirectedEdges(corners)
    IN  /\ Cardinality(E) = 3 * Len(corners)
        /\ \A e \in E : e[1] # e[2] /\ <<e[2], e[1]>> \in E

\* corners of indexed triangles compared by vertex index / by vertex position
ByIndex(ts) == ts
ByPosition(Vs, ts) ==
    [i \in DOMAIN ts |-> <<Vtx(Vs, ts[i][1]), Vtx(Vs, ts[i][2]), Vtx(Vs, ts[i][3])>>]

(***************************************************************************)
(* voxelPartSTL: one prism per included cell.                              *)
(***************************************************************************)
\* main's constants, lengths in 1/100 mm
BaseThicknessMM == 300
OverlayHeightMM == 65
\* one cell (px) in model length units; originX = originY = -innerR and
\* px = 2 * innerR / W, so originX = -(W * px) / 2
Px == 2
OriginOf(n) == 0 - (n * Px) \div 2

\* addQuad pushes four fresh vertices a, b, c, d and the two triangles
\* (a, b, c) (a, c, d).  The quads are collected in emission order; the q-th
\* quad (q = 0, 1, ...) owns the vertices 4q .. 4q + 3.
addQuad(quads, a, b, c, d) == Append(quads, <<a, b, c, d>>)

MeshOfQuads(quads) ==
    [V    |-> [i \in 1 .. 4 * Len(quads) |-> quads[((i - 1) \div 4) + 1][((i - 1) % 4) + 1]],
     tris |-> [j \in 1 .. 2 * Len(quads) |->
                 LET iA == 4 * ((j - 1) \div 2)
                 IN  IF j % 2 = 1 THEN <<iA, iA + 1, iA + 2>>
                                  ELSE <<iA, iA + 2, iA + 3>>]]

\* a side quad is emitted only where `open` holds
SideQuad(quads, open, a, b, c, d) ==
    IF open THEN addQuad(quads, a, b, c, d) ELSE quads

\* the quads of cell (x, y), in the order of the loop body
VoxelCellAllSides(m, Wd, Hd, x, y, zBottom, zTop) ==
    LET x0 == OriginOf(Wd) + x * Px
        x1 == OriginOf(Wd) + (x + 1) * Px
        y0 == OriginOf(Hd) + y * Px
        y1 == OriginOf(Hd) + (y + 1) * Px
        z0 == zBottom
        z1 == zTop
    IN  << <<<<x0, y0, z1>>, <<x1, y0, z1>>, <<x1, y1, z1>>, <<x0, y1, z1>>>>,
           <<<<x0, y0, z0>>, <<x0, y1, z0>>, <<x1, y1, z0>>, <<x1, y0, z0>>>>,
           <<<<x0, y0, z0>>, <<x0, y0, z1>>, <<x0, y1, z1>>, <<x0, y1, z0>>>>,
           <<<<x1, y0, z0>>, <<x1, y1, z0>>, <<x1, y1, z1>>, <<x1, y0, z1>>>>,
           <<<<x0, y0, z0>>, <<x1, y0, z0>>, <<x1, y0, z1>>, <<x0, y0, z1>>>>,
           <<<<x0, y1, z0>>, <<x0, y1, z1>>, <<x1, y1, z1>>, <<x1, y1, z0>>>> >>

VoxelCell(m, Wd, Hd, x, y, zBottom, zTop) ==
    LET x0 == OriginOf(Wd) + x * Px
        x1 == OriginOf(Wd) + (x + 1) * Px
        y0 == OriginOf(Hd) + y * Px
        y1 == OriginOf(Hd) + (y + 1) * Px
        z0 == zBottom
        z1 == zTop
        top == addQuad(<<>>, <<x0, y0, z1>>, <<x1, y0, z1>>, <<x1, y1, z1>>, <<x0, y1, z1>>)
        bot == addQuad(top, <<x0, y0, z0>>, <<x0, y1, z0>>, <<x1, y1, z0>>, <<x1, y0, z0>>)
        mx  == SideQuad(bot, x = 0 \/ m[idx(Wd, x - 1, y)] = 0,
                   <<x0, y0, z0>>, <<x0, y0, z1>>, <<x0, y1, z1>>, <<x0, y1, z0>>)
        px_ == SideQuad(mx, x = Wd - 1 \/ m[idx(Wd, x + 1, y)] = 0,
                   <<x1, y0, z0>>, <<x1, y1, z0>>, <<x1, y1, z1>>, <<x1, y0, z1>>)
        my  == SideQuad(px_, y = 0 \/ m[idx(Wd, x, y - 1)] = 0,
                   <<x0, y0, z0>>, <<x1, y0, z0>>, <<x1, y0, z1>>, <<x0, y0, z1>>)
    IN  SideQuad(my, y = Hd - 1 \/ m[idx(Wd, x, y + 1)] = 0,
                   <<x0, y1, z0>>, <<x0, y1, z1>>, <<x1, y1, z1>>, <<x1, y1, z0>>)

\* the quads emitted by the first k cells of the row-major loop
RECURSIVE VoxelScan(_, _, _, _, _, _)
VoxelScan(m, Wd, Hd, zBottom, zTop, k) ==
    IF k = 0 THEN <<>>
    ELSE LET prev == VoxelScan(m, Wd, Hd, zBottom, zTop, k - 1)
             i == k - 1
         IN  IF m[i] = 0 THEN prev
             ELSE prev \o VoxelCell(m, Wd, Hd, i % Wd, i \div Wd, zBottom, zTop)

voxelPartSTL(m, Wd, Hd, zBottom, zTop) ==
    MeshOfQuads(VoxelScan(m, Wd, Hd, zBottom, zTop, Wd * Hd))

\* main: heightsTopConst[i] = baseThicknessMM + overlayHeightMM, zBottom = baseThicknessMM
PartsVoxelPartSTL ==
    /\ pc = "voxelPartSTL"
    /\ LET mesh == voxelPartSTL(mask, arg.W, arg.H, BaseThicknessMM,
                                BaseThicknessMM + OverlayHeightMM)
       IN  /\ V' = mesh.V
           /\ tris' = mesh.tris
    /\ log' = Append(log, "voxelPartSTL")
    /\ pc' = "written"
    /\ UNCHANGED <<arg, mask, hist, buf, o, loc>>

PartsNext ==
    \/ PartsRemoveIsolated
    \/ PartsBreakDiagonalContacts
    \/ PartsVoxelPartSTL

SpecParts == PartsInit /\ [][PartsNext]_vars

(***************************************************************************)
(* Claims about the repair passes and the extrusion (SpecParts).           *)
(***************************************************************************)
\* From the mask m reached after k block visits: every later visit leaves all
\* the blocks visited so far free of both diagonal patterns.
RECURSIVE ScanLeavesNone(_, _, _, _)
ScanLeavesNone(m, Wd, Hd, k) ==
    IF k >= NumBlocks(Wd, Hd) THEN TRUE
    ELSE LET m2 == BreakBlock(m, Wd, BlockX(Wd, k), BlockY(Wd, k))
         IN  /\ \A j \in 0 .. k : ~DiagonalAt(m2, Wd, BlockX(Wd, j), BlockY(Wd, j))
             /\ ScanLeavesNone(m2, Wd, Hd, k + 1)

\* C1: the mask handed to voxelPartSTL holds neither forbidden diagonal
\* pattern in any 2x2 block, and a scan of breakDiagonalContacts over a mask
\* (the class mask as built, or as removeIsolated left it) never leaves a
\* pattern in a block it has already visited.
C1_NoDiagonalAfterRepair ==
    /\ pc \in {"voxelPartSTL", "written"} => ~HasDiagonal(mask, arg.W, arg.H)
    /\ pc \in {"removeIsolated", "breakDiagonalContacts"} =>
           ScanLeavesNone(mask, arg.W, arg.H, 0)

\* a mask with a diagonal contact went into breakDiagonalContacts and the
\* cleaned mask has reached the extrusion
C1_Witness ==
    /\ pc = "voxelPartSTL"
    /\ HasDiagonal(hist[2], arg.W, arg.H)
    /\ mask # hist[2]

\* C2 (as claimed): the mask handed to voxelPartSTL has no included cell
\* without an included 4-neighbour.
C2_NoIsolatedAfterRepair ==
    pc \in {"voxelPartSTL", "written"} => ~HasIsolated(mask, arg.W, arg.H)

\* C4 (as claimed): when a part has been extruded, the passes ran in the
\* order breakDiagonalContacts, removeIsolated, voxelPartSTL and the extruded
\* mask is the one the second pass left.
C4_RepairOrder ==
    pc = "written" =>
        /\ log = <<"breakDiagonalContacts", "removeIsolated", "voxelPartSTL">>
        /\ mask = hist[Len(hist)]

\* C8: the triangles voxelPartSTL emits for a repaired mask close up, vertices
\* compared by position: every directed edge is in exactly one triangle and
\* its reverse in exactly one other.
C8_VoxelWatertight ==
    pc = "written" => Watertight(ByPosition(V, tris))

\* a part with at least two adjacent cells (so shared faces are skipped) has
\* been extruded
C8_Witness ==
    /\ pc = "written"
    /\ Len(tris) >= 20
    /\ \E i \in DOMAIN mask : i % arg.W < arg.W - 1 /\ mask[i] = 1 /\ mask[i + 1] = 1

(***************************************************************************)
(* The repair pair as a transform on arbitrary masks: breakDiagonalContacts *)
(* then removeIsolated, applied twice in a row.                            *)
(***************************************************************************)
RepairInit ==
    /\ pc = "breakDiagonalContacts"
    /\ \E Wd \in 1 .. MaxCells, Hd \in 1 .. MaxCells :
          /\ Wd * Hd <= MaxCells
          /\ arg = [W |-> Wd, H |-> Hd]
          /\ mask \in Masks(Wd, Hd)
    /\ hist = <<mask>>
    /\ log = <<>>
    /\ V = <<>>
    /\ tris = <<>>
    /\ buf = Idle
    /\ o = 0
    /\ loc = Idle

RepairBreakDiagonalContacts ==
    /\ pc = "breakDiagonalContacts"
    /\ Len(log) < 4
    /\ mask' = breakDiagonalContacts(mask, arg.W, arg.H)
    /\ hist' = Append(hist, mask')
    /\ log' = Append(log, "breakDiagonalContacts")
    /\ pc' = "removeIsolated"
    /\ UNCHANGED <<arg, V, tris, buf, o, loc>>

RepairRemoveIsolated ==
    /\ pc = "removeIsolated"
    /\ mask' = removeIsolated(mask, arg.W, arg.H)
    /\ hist' = Append(hist, mask')
    /\ log' = Append(log, "removeIsolated")
    /\ pc' = "breakDiagonalContacts"
    /\ UNCHANGED <<arg, V, tris, buf, o, loc>>

RepairNext ==
    \/ RepairBreakDiagonalContacts
    \/ RepairRemoveIsolated

SpecRepair == RepairInit /\ [][RepairNext]_vars

\* C3: breakDiagonalContacts then removeIsolated applied twice in a row
\* leaves exactly the mask that applying the pair once left.
C3_RepairIdempotent ==
    Len(hist) = 5 => hist[5] = hist[3]

\* the pair has run twice on a mask from which the first run cleared both a
\* diagonal contact and an isolated cell
C3_Witness ==
    /\ Len(hist) = 5
    /\ hist[2] # hist[1]
    /\ hist[3] # hist[2]

(***************************************************************************)
(* Triangle normals: addTri of the heightmap builder and normal() of the   *)
(* two indexed writers compute the same expression.  A stored normal is    *)
(* kept exactly, as the vector num divided by the square root of len2:     *)
(* len = Math.hypot(nx, ny, nz) || 1, so len2 is |num|^2, or 1 when the    *)
(* cross product is the zero vector.                                       *)
(***************************************************************************)
Cross(a, b, c) ==
    LET ux == b[1] - a[1]
        uy == b[2] - a[2]
        uz == b[3] - a[3]
        vx == c[1] - a[1]
        vy == c[2] - a[2]
        vz == c[3] - a[3]
    IN  <<uy * vz - uz * vy, uz * vx - ux * vz, ux * vy - uy * vx>>

Norm2(n) == n[1] * n[1] + n[2] * n[2] + n[3] * n[3]

normalNoGuard(a, b, c) ==
    [num |-> Cross(a, b, c), len2 |-> Norm2(Cross(a, b, c))]

normal(a, b, c) ==
    LET n == Cross(a, b, c)
    IN  [num |-> n, len2 |-> IF Norm2(n) = 0 THEN 1 ELSE Norm2(n)]

(***************************************************************************)
(* buildWatertightHeightmapSTL: triangle soup, each triangle a record of   *)
(* its normal n and its corners a, b, c.                                   *)
(***************************************************************************)
\* alpha grids have w, h >= 2 and at most MaxAlphaCells cells (256 x 256 in main)
MaxAlphaCells == 9
\* alpha values of the model: transparent, opaque
AlphaLevels == {0, 255}
\* main's targetWidthMM; w - 1 and h - 1 divide it for every grid of the model,
\* so dx, dy and the centred coordinates are whole millimetres
TargetWidthMM == 60

addTri(ts, a, b, c) == Append(ts, [n |-> normal(a, b, c), a |-> a, b |-> b, c |-> c])

\* zTop(i) = baseThicknessMM + (alpha[i] / 255) * reliefHeightMM
zTop(g, i) == g.baseThicknessMM + (g.alpha[i] * g.reliefHeightMM) \div 255
zBot == 0

\* V(x, y, z): centred around the origin
HV(g, x, y, z) ==
    LET dx == g.targetWidthMM \div (g.w - 1)
        dy == g.targetWidthMM \div (g.h - 1)
        cx == ((g.w - 1) * dx) \div 2
        cy == ((g.h - 1) * dy) \div 2
    IN  <<x * dx - cx, y * dy - cy, z>>

\* the two top triangles of cell (x, y)
TopCell(g, ts, x, y) ==
    LET p00 == HV(g, x, y, zTop(g, y * g.w + x))
        p10 == HV(g, x + 1, y, zTop(g, y * g.w + (x + 1)))
        p01 == HV(g, x, y + 1, zTop(g, (y + 1) * g.w + x))
        p11 == HV(g, x + 1, y + 1, zTop(g, (y + 1) * g.w + (x + 1)))
    IN  addTri(addTri(ts, p00, p10, p11), p00, p11, p01)

\* the two bottom triangles of cell (x, y), winding flipped
BottomCell(g, ts, x, y) ==
    LET p00 == HV(g, x, y, zBot)
        p10 == HV(g, x + 1, y, zBot)
        p01 == HV(g, x, y + 1, zBot)
        p11 == HV(g, x + 1, y + 1, zBot)
    IN  addTri(addTri(ts, p00, p11, p10), p00, p01, p11)

\* the surface loops: cells in row-major order, k cells done
RECURSIVE TopScan(_, _, _)
TopScan(g, ts, k) ==
    IF k = 0 THEN ts
    ELSE TopCell(g, TopScan(g, ts, k - 1), (k - 1) % (g.w - 1), (k - 1) \div (g.w - 1))

RECURSIVE BottomScan(_, _, _)
BottomScan(g, ts, k) ==
    IF k = 0 THEN ts
    ELSE BottomCell(g, BottomScan(g, ts, k - 1), (k - 1) % (g.w - 1), (k - 1) \div (g.w - 1))

\* addWall(x0, y0, x1, y1, zTop0, zTop1)
addWall(g, ts, x0, y0, x1, y1, zTop0, zTop1) ==
    LET a == HV(g, x0, y0, zBot)
        b == HV(g, x1, y1, zBot)
        c == HV(g, x1, y1, zTop1)
        d == HV(g, x0, y0, zTop0)
    IN  addTri(addTri(ts, a, b, c), a, c, d)

\* one segment of each of the four wall loops
WallTop(g, ts, x) ==
    addWall(g, ts, x, 0, x + 1, 0, zTop(g, 0 * g.w + x), zTop(g, 0 * g.w + (x + 1)))

WallBottomNotReversed(g, ts, x) ==
    addWall(g, ts, x, g.h - 1, x + 1, g.h - 1,
            zTop(g, (g.h - 1) * g.w + x), zTop(g, (g.h - 1) * g.w + (x + 1)))

WallBottom(g, ts, x) ==
    addWall(g, ts, x + 1, g.h - 1, x, g.h - 1,
            zTop(g, (g.h - 1) * g.w + (x + 1)), zTop(g, (g.h - 1) * g.w + x))

WallLeft(g, ts, y) ==
    addWall(g, ts, 0, y + 1, 0, y, zTop(g, (y + 1) * g.w + 0), zTop(g, y * g.w + 0))

WallRight(g, ts, y) ==
    addWall(g, ts, g.w - 1, y, g.w - 1, y + 1,
            zTop(g, y * g.w + (g.w - 1)), zTop(g, (y + 1) * g.w + (g.w - 1)))

\* a wall loop: segments 0 .. k - 1 of the named edge
RECURSIVE WallScan(_, _, _, _)
WallScan(g, ts, edge, k) ==
    IF k = 0 THEN ts
    ELSE LET prev == WallScan(g, ts, edge, k - 1)
         IN  CASE edge = "top"    -> WallTop(g, prev, k - 1)
               [] edge = "bottom" -> WallBottom(g, prev, k - 1)
               [] edge = "left"   -> WallLeft(g, prev, k - 1)
               [] edge = "right"  -> WallRight(g, prev, k - 1)

AlphaGrids(w, h) == [0 .. (w * h - 1) -> AlphaLevels]

HeightmapInit ==
    /\ pc = "top surface"
    /\ \E w \in 2 .. MaxAlphaCells, h \in 2 .. MaxAlphaCells :
          /\ w * h <= MaxAlphaCells
          /\ \E alpha \in AlphaGrids(w, h), base \in {1, 2}, relief \in {3, 6} :
                arg = [alpha |-> alpha, w |-> w, h |-> h,
                       targetWidthMM |-> TargetWidthMM,
                       baseThicknessMM |-> base, reliefHeightMM |-> relief]
    /\ mask = Idle
    /\ hist = Idle
    /\ log = <<>>
    /\ V = <<>>
    /\ tris = <<>>
    /\ buf = Idle
    /\ o = 0
    /\ loc = Idle

\* one loop of a builder: it leaves the triangle list ts
MeshStep(at, next, ts) ==
    /\ pc = at
    /\ tris' = ts
    /\ log' = Append(log, at)
    /\ pc' = next
    /\ UNCHANGED <<arg, mask, hist, V, buf, o, loc>>

HeightmapTop ==
    MeshStep("top surface", "bottom surface",
                  TopScan(arg, tris, (arg.w - 1) * (arg.h - 1)))

HeightmapBottom ==
    MeshStep("bottom surface", "top edge",
                  BottomScan(arg, tris, (arg.w - 1) * (arg.h - 1)))

HeightmapWallTop ==
    MeshStep("top edge", "bottom edge", WallScan(arg, tris, "top", arg.w - 1))

HeightmapWallBottom ==
    MeshStep("bottom edge", "left edge", WallScan(arg, tris, "bottom", arg.w - 1))

HeightmapWallLeft ==
    MeshStep("left edge", "right edge", WallScan(arg, tris, "left", arg.h - 1))

HeightmapWallRight ==
    MeshStep("right edge", "return", WallScan(arg, tris, "right", arg.h - 1))

HeightmapNext ==
    \/ HeightmapTop
    \/ HeightmapBottom
    \/ HeightmapWallTop
    \/ HeightmapWallBottom
    \/ HeightmapWallLeft
    \/ HeightmapWallRight

SpecHeightmap == HeightmapInit /\ [][HeightmapNext]_vars

\* corners of soup triangles, compared by position
SoupCorners(ts) == [i \in DOMAIN ts |-> <<ts[i].a, ts[i].b, ts[i].c>>]

\* C5: the triangle set buildWatertightHeightmapSTL returns has zero boundary
\* edges: every directed edge between two vertex positions is in exactly one
\* triangle and its reverse in exactly one other.
C5_HeightmapWatertight ==
    pc = "return" => Watertight(SoupCorners(tris))

\* a grid with an interior vertex and cells of different heights has been built
C5_Witness ==
    /\ pc = "return"
    /\ arg.w = 3 /\ arg.h = 3
    /\ \E i, j \in DOMAIN arg.alpha : arg.alpha[i] # arg.alpha[j]
    /\ Len(tris) = 32

(***************************************************************************)
(* buildCoinMesh: indexed mesh of rings + 1 concentric samples x segments. *)
(* A vertex [x, y, z] = [rr cos(th), rr sin(th), z] with th = 2 pi si /    *)
(* segments is kept as <<rr, si, z>>; lengths are in 1/100 mm.  The UV     *)
(* buffer (VT, topUV) only feeds the OBJ text export and is left out.      *)
(***************************************************************************)
MaxRings == 3
MaxSegments == 5

\* The images of the model are uniform: every pixel has the same luminance
\* lum and alpha a, both 0 or 1, so every bilinear sample returns them and
\* Math.pow(lum, reliefGamma) is lum.
\* relief = a * Math.max(minReliefMM, Math.pow(lum, reliefGamma) * reliefHeightMM)
Max2(a, b) == IF a >= b THEN a ELSE b
Relief(g) == g.img.a * Max2(g.minReliefMM, g.img.lum * g.reliefHeightMM)

CoinR(g) == g.diameterMM \div 2
CoinInnerR(g) == Max2(0, CoinR(g) - g.rimWidthMM)
\* rr = (ri / rings) * R; rings divides R for every mesh of the model
RingRadius(g, ri) == (ri * CoinR(g)) \div g.rings

CoinZTop(g, ri) ==
    IF ri = 0 THEN g.baseThicknessMM + Relief(g)
    ELSE IF RingRadius(g, ri) >= CoinInnerR(g) /\ g.rimWidthMM > 0
         THEN g.baseThicknessMM + g.rimHeightMM
         ELSE g.baseThicknessMM + Relief(g)

\* push order: ring 0 pushes the top centre then the bottom centre; ring
\* ri >= 1 pushes, for si = 0 .. segments - 1, the top then the bottom vertex
topIndex(g, ri, si) == IF ri = 0 THEN 0 ELSE 2 + 2 * ((ri - 1) * g.segments + si)
botIndex(g, ri, si) == topIndex(g, ri, si) + 1

CoinVertices(g) ==
    [i \in 1 .. (2 + 2 * g.rings * g.segments) |->
        LET k  == i - 1
            ri == IF k < 2 THEN 0 ELSE ((k - 2) \div 2) \div g.segments + 1
            si == IF k < 2 THEN 0 ELSE ((k - 2) \div 2) % g.segments
        IN  <<RingRadius(g, ri), si, IF k % 2 = 0 THEN CoinZTop(g, ri) ELSE 0>>]

\* addTri(a, b, c) of the indexed builders
pushTri(ts, a, b, c) == Append(ts, <<a, b, c>>)

\* the loops of the triangulation, s (and r) iterations done
RECURSIVE TopFan(_, _, _)
TopFan(g, ts, s) ==
    IF s = 0 THEN ts
    ELSE pushTri(TopFan(g, ts, s - 1), topIndex(g, 0, 0),
                 topIndex(g, 1, s - 1), topIndex(g, 1, s % g.segments))

\* one quad of a ring strip: (a, d, c) (a, c, b) on top
TopQuad(g, ts, r, s) ==
    LET a == topIndex(g, r, s)
        b == topIndex(g, r, (s + 1) % g.segments)
        c == topIndex(g, r + 1, (s + 1) % g.segments)
        d == topIndex(g, r + 1, s)
    IN  pushTri(pushTri(ts, a, d, c), a, c, b)

\* ... and (a, c, d) (a, b, c) on the bottom
BottomQuad(g, ts, r, s) ==
    LET a == botIndex(g, r, s)
        b == botIndex(g, r, (s + 1) % g.segments)
        c == botIndex(g, r + 1, (s + 1) % g.segments)
        d == botIndex(g, r + 1, s)
    IN  pushTri(pushTri(ts, a, c, d), a, b, c)

\* for (r = 1; r < rings; r++) for (s = 0; s < segments; s++): k quads done
RECURSIVE TopRings(_, _, _)
TopRings(g, ts, k) ==
    IF k = 0 THEN ts
    ELSE TopQuad(g, TopRings(g, ts, k - 1), 1 + (k - 1) \div g.segments, (k - 1) % g.segments)

RECURSIVE BottomRings(_, _, _)
BottomRings(g, ts, k) ==
    IF k = 0 THEN ts
    ELSE BottomQuad(g, BottomRings(g, ts, k - 1), 1 + (k - 1) \div g.segments,
                    (k - 1) % g.segments)

BottomFanTriSameWinding(g, ts, s) ==
    pushTri(ts, botIndex(g, 0, 0), botIndex(g, 1, s), botIndex(g, 1, (s + 1) % g.segments))

BottomFanTri(g, ts, s) ==
    pushTri(ts, botIndex(g, 0, 0), botIndex(g, 1, (s + 1) % g.segments), botIndex(g, 1, s))

RECURSIVE BottomFan(_, _, _)
BottomFan(g, ts, s) ==
    IF s = 0 THEN ts ELSE BottomFanTri(g, BottomFan(g, ts, s - 1), s - 1)

RECURSIVE SideWall(_, _, _)
SideWall(g, ts, s) ==
    IF s = 0 THEN ts
    ELSE LET a == botIndex(g, g.rings, s - 1)
             b == botIndex(g, g.rings, s % g.segments)
             c == topIndex(g, g.rings, s % g.segments)
             d == topIndex(g, g.rings, s - 1)
         IN  pushTri(pushTri(SideWall(g, ts, s - 1), a, b, c), a, c, d)

\* main calls buildCoinMesh({ img }): every other parameter has its default
\* (rimWidthMM = 2.2); no rim and a rim as wide as the radius are the ends of
\* what line 298 provides for
RimWidths == {0, 220, 3000}

CoinInit ==
    /\ pc = "build rings"
    /\ \E rings \in 1 .. MaxRings, segments \in 3 .. MaxSegments,
          lum \in {0, 1}, a \in {0, 1}, rimWidth \in RimWidths :
            arg = [img |-> [lum |-> lum, a |-> a],
                   diameterMM |-> 6000, baseThicknessMM |-> 300,
                   reliefHeightMM |-> 160, rimWidthMM |-> rimWidth,
                   rimHeightMM |-> 80, segments |-> segments, rings |-> rings,
                   minReliefMM |-> 5]
    /\ mask = Idle
    /\ hist = Idle
    /\ log = <<>>
    /\ V = <<>>
    /\ tris = <<>>
    /\ buf = Idle
    /\ o = 0
    /\ loc = Idle

CoinBuildRings ==
    /\ pc = "build rings"
    /\ V' = CoinVertices(arg)
    /\ log' = Append(log, pc)
    /\ pc' = "top fan"
    /\ UNCHANGED <<arg, mask, hist, tris, buf, o, loc>>

CoinTopFan == MeshStep("top fan", "top rings", TopFan(arg, tris, arg.segments))

CoinTopRings ==
    MeshStep("top rings", "bottom fan", TopRings(arg, tris, (arg.rings - 1) * arg.segments))

CoinBottomFan == MeshStep("bottom fan", "bottom rings", BottomFan(arg, tris, arg.segments))

CoinBottomRings ==
    MeshStep("bottom rings", "side wall",
             BottomRings(arg, tris, (arg.rings - 1) * arg.segments))

CoinSideWall == MeshStep("side wall", "return", SideWall(arg, tris, arg.segments))

CoinNext ==
    \/ CoinBuildRings
    \/ CoinTopFan
    \/ CoinTopRings
    \/ CoinBottomFan
    \/ CoinBottomRings
    \/ CoinSideWall

SpecCoin == CoinInit /\ [][CoinNext]_vars

\* C6: the indexed mesh buildCoinMesh returns is watertight: every directed
\* edge of vertex indices is in exactly one triangle and its reverse in exactly
\* one other triangle.
C6_CoinWatertight ==
    pc = "return" => Watertight(ByIndex(tris))

\* a coin with ring strips between the fan and the side wall has been built
C6_Witness ==
    /\ pc = "return"
    /\ arg.rings >= 2
    /\ Len(tris) = 4 * arg.rings * arg.segments
    /\ Len(V) = 2 + 2 * arg.rings * arg.segments

(***************************************************************************)
(* buildBaseCoinSTL: flat disc top, raised flat rim, step wall at innerR.  *)
(* Vertices are kept as <<rr, s, z>> like those of buildCoinMesh.          *)
(***************************************************************************)
\* push order: vTopCenter, vBotCenter, then per segment s
\* topDisc[s], topRimInner[s], topRimOuter[s], botOuter[s]
vTopCenter == 0
vBotCenter == 1
topDisc(s) == 2 + 4 * s
topRimInner(s) == 3 + 4 * s
topRimOuter(s) == 4 + 4 * s
botOuter(s) == 5 + 4 * s

BaseVertices(g) ==
    LET R == g.diameterMM \div 2
        innerR == Max2(0, R - g.rimWidthMM)
        rimZ == g.baseThicknessMM + g.rimHeightMM
    IN  [i \in 1 .. (2 + 4 * g.segments) |->
            LET k == i - 1
                sg == (k - 2) \div 4
            IN  IF k = 0 THEN <<0, 0, g.baseThicknessMM>>
                ELSE IF k = 1 THEN <<0, 0, 0>>
                ELSE CASE (k - 2) % 4 = 0 -> <<innerR, sg, g.baseThicknessMM>>
                       [] (k - 2) % 4 = 1 -> <<innerR, sg, rimZ>>
                       [] (k - 2) % 4 = 2 -> <<R, sg, rimZ>>
                       [] (k - 2) % 4 = 3 -> <<R, sg, 0>>]

RECURSIVE BaseTopDiscFan(_, _, _)
BaseTopDiscFan(g, ts, s) ==
    IF s = 0 THEN ts
    ELSE pushTri(BaseTopDiscFan(g, ts, s - 1), vTopCenter,
                 topDisc(s - 1), topDisc(s % g.segments))

RECURSIVE BaseTopRimBand(_, _, _)
BaseTopRimBand(g, ts, s) ==
    IF s = 0 THEN ts
    ELSE LET a == topRimInner(s - 1)
             b == topRimInner(s % g.segments)
             c == topRimOuter(s % g.segments)
             d == topRimOuter(s - 1)
         IN  pushTri(pushTri(BaseTopRimBand(g, ts, s - 1), a, d, c), a, c, b)

RECURSIVE BaseBottomFan(_, _, _)
BaseBottomFan(g, ts, s) ==
    IF s = 0 THEN ts
    ELSE pushTri(BaseBottomFan(g, ts, s - 1), vBotCenter,
                 botOuter(s % g.segments), botOuter(s - 1))

RECURSIVE BaseOuterWall(_, _, _)
BaseOuterWall(g, ts, s) ==
    IF s = 0 THEN ts
    ELSE LET a == botOuter(s - 1)
             b == botOuter(s % g.segments)
             c == topRimOuter(s % g.segments)
             d == topRimOuter(s - 1)
         IN  pushTri(pushTri(BaseOuterWall(g, ts, s - 1), a, b, c), a, c, d)

RECURSIVE BaseInnerStepWall(_, _, _)
BaseInnerStepWall(g, ts, s) ==
    IF s = 0 THEN ts
    ELSE LET a == topDisc(s - 1)
             b == topDisc(s % g.segments)
             c == topRimInner(s % g.segments)
             d == topRimInner(s - 1)
         IN  pushTri(pushTri(BaseInnerStepWall(g, ts, s - 1), a, b, c), a, c, d)

BaseInit ==
    /\ pc = "vertices"
    /\ \E segments \in 3 .. MaxSegments, diameter \in {4000, 6000},
          base \in {200, 300}, rimWidth \in {220, 1000}, rimHeight \in {80, 160} :
            arg = [diameterMM |-> diameter, baseThicknessMM |-> base,
                   rimWidthMM |-> rimWidth, rimHeightMM |-> rimHeight,
                   segments |-> segments]
    /\ mask = Idle
    /\ hist = Idle
    /\ log = <<>>
    /\ V = <<>>
    /\ tris = <<>>
    /\ buf = Idle
    /\ o = 0
    /\ loc = Idle

BaseBuildVertices ==
    /\ pc = "vertices"
    /\ V' = BaseVertices(arg)
    /\ log' = Append(log, pc)
    /\ pc' = "top disc fan"
    /\ UNCHANGED <<arg, mask, hist, tris, buf, o, loc>>

BaseCoinTopDiscFan ==
    MeshStep("top disc fan", "top rim band", BaseTopDiscFan(arg, tris, arg.segments))

BaseCoinTopRimBand ==
    MeshStep("top rim band", "bottom fan to outer", BaseTopRimBand(arg, tris, arg.segments))

BaseCoinBottomFan ==
    MeshStep("bottom fan to outer", "outer wall", BaseBottomFan(arg, tris, arg.segments))

BaseCoinOuterWall ==
    MeshStep("outer wall", "inner step wall", BaseOuterWall(arg, tris, arg.segments))

BaseCoinInnerStepWall ==
    MeshStep("inner step wall", "return", BaseInnerStepWall(arg, tris, arg.segments))

BaseNext ==
    \/ BaseBuildVertices
    \/ BaseCoinTopDiscFan
    \/ BaseCoinTopRimBand
    \/ BaseCoinBottomFan
    \/ BaseCoinOuterWall
    \/ BaseCoinInnerStepWall

SpecBaseCoin == BaseInit /\ [][BaseNext]_vars

\* C7 (as claimed): in the mesh buildBaseCoinSTL returns every directed edge
\* is in exactly one triangle and its reverse in exactly one other triangle.
C7_BaseCoinWatertight ==
    pc = "return" => Watertight(ByIndex(tris))

(***************************************************************************)
(* writeBinarySTL (three copies: heightmap, coin, parts).  The buffer maps *)
(* a byte offset to the byte written there:                                *)
(*   <<"u8", b>>        a byte of an integer written little-endian         *)
(*   <<"ascii", k>>     character k of the header text                     *)
(*   <<"f32", v, k>>    byte k of the float32 encoding of the number v     *)
(* A normal component is kept as <<n, len2>>: n divided by sqrt(len2).     *)
(***************************************************************************)
MaxTris == 3

\* Buffer.alloc(size): zero-filled
Alloc(size) == [i \in 0 .. (size - 1) |-> <<"u8", 0>>]

\* a write at offset `at` of the bytes `bytes` (a function on 0 .. width - 1)
WriteBytes(b, at, bytes) ==
    [i \in DOMAIN b |-> IF (i - at) \in DOMAIN bytes THEN bytes[i - at] ELSE b[i]]

Pow256(k) == CASE k = 0 -> 1 [] k = 1 -> 256 [] k = 2 -> 65536 [] k = 3 -> 16777216

writeUInt32LE(b, v, at) ==
    WriteBytes(b, at, [k \in 0 .. 3 |-> <<"u8", (v \div Pow256(k)) % 256>>])

writeUInt16LE(b, v, at) ==
    WriteBytes(b, at, [k \in 0 .. 1 |-> <<"u8", (v \div Pow256(k)) % 256>>])

writeFloatLE(b, v, at) ==
    WriteBytes(b, at, [k \in 0 .. 3 |-> <<"f32", v, k>>])

\* out.write(text.slice(0, 80), 0, 'ascii')
writeAscii(b, len, at) ==
    WriteBytes(b, at, [k \in 0 .. ((IF len < 80 THEN len ELSE 80) - 1) |-> <<"ascii", k>>])

readUInt32LE(b, at) ==
    b[at][2] + 256 * b[at + 1][2] + 65536 * b[at + 2][2] + 16777216 * b[at + 3][2]

\* length of the header text each writer is called with
HeaderLen(writer) ==
    CASE writer = "heightmap" -> 25     \* 'xqcL heightmap relief STL'
      [] writer = "coin"      -> 13     \* 'xqcL coin STL'
      [] writer = "parts"     -> 19     \* 'xqcL coin base 60mm'

\* const out = Buffer.alloc(84 + triCount * 50)
allocSTLShort(triCount) == Alloc(80 + triCount * 50)

allocSTL(triCount) == Alloc(84 + triCount * 50)

\* writeFloatLE stores a number as float32, which keeps 24 significant bits.
\* fround(v) is the float32 nearest to the whole number v (ties to even):
\* Quantum(m) is the spacing of the float32 numbers around the magnitude m.
RECURSIVE Quantum(_)
Quantum(m) == IF m < 16777216 THEN 1 ELSE 2 * Quantum(m \div 2)

fround(v) ==
    LET m  == IF v < 0 THEN 0 - v ELSE v
        q  == Quantum(m)
        lo == (m \div q) * q
        r  == m - lo
        n  == IF 2 * r < q THEN lo
              ELSE IF 2 * r > q THEN lo + q
              ELSE IF (lo \div q) % 2 = 0 THEN lo ELSE lo + q
    IN  IF v < 0 THEN 0 - n ELSE n

\* the 50 bytes of one triangle: normal, three corners, attribute count;
\* a normal component <<n, len2>> stands for the float32 nearest to
\* n / sqrt(len2)
WriteRecord(b, at, n, A, B, C) ==
    LET b1  == writeFloatLE(b, <<n.num[1], n.len2>>, at + 0)
        b2  == writeFloatLE(b1, <<n.num[2], n.len2>>, at + 4)
        b3  == writeFloatLE(b2, <<n.num[3], n.len2>>, at + 8)
        b4  == writeFloatLE(b3, fround(A[1]), at + 12)
        b5  == writeFloatLE(b4, fround(A[2]), at + 16)
        b6  == writeFloatLE(b5, fround(A[3]), at + 20)
        b7  == writeFloatLE(b6, fround(B[1]), at + 24)
        b8  == writeFloatLE(b7, fround(B[2]), at + 28)
        b9  == writeFloatLE(b8, fround(B[3]), at + 32)
        b10 == writeFloatLE(b9, fround(C[1]), at + 36)
        b11 == writeFloatLE(b10, fround(C[2]), at + 40)
        b12 == writeFloatLE(b11, fround(C[3]), at + 44)
    IN  writeUInt16LE(b12, 0, at + 48)

\* the loop body of each writer for triangle t of the list
WriteTriHeightmap(b, at, t) == WriteRecord(b, at, t.n, t.a, t.b, t.c)

WriteTriCoin(b, at, Vs, t) ==
    WriteRecord(b, at, normal(Vtx(Vs, t[1]), Vtx(Vs, t[2]), Vtx(Vs, t[3])),
                Vtx(Vs, t[1]), Vtx(Vs, t[2]), Vtx(Vs, t[3]))

WriteTriParts(b, at, Vs, t) ==
    WriteRecord(b, at, normal(Vtx(Vs, t[1]), Vtx(Vs, t[2]), Vtx(Vs, t[3])),
                Vtx(Vs, t[1]), Vtx(Vs, t[2]), Vtx(Vs, t[3]))

\* Meshes handed to the writers: the vertex buffer PoolV and lists of at most
\* MaxTris of the index triangles PoolTris.  Vertices 0, 1, 3 are collinear.
\* Vertex 5 lies on the same line; its x is not a float32 number.
PoolV == << <<0, 0, 0>>, <<3, 0, 0>>, <<0, 4, 0>>, <<6, 0, 0>>, <<0, 0, 5>>,
            <<16777217, 0, 0>> >>
PoolTris == { <<0, 1, 2>>, <<0, 2, 1>>, <<1, 2, 4>>, <<0, 1, 3>>, <<1, 1, 2>>,
              <<0, 1, 5>> }

TriLists == UNION {[1 .. n -> PoolTris] : n \in 0 .. MaxTris}

\* the same triangles as the soup records addTri builds
SoupOf(Vs, ts) ==
    [i \in DOMAIN ts |->
        addTri(<<>>, Vtx(Vs, ts[i][1]), Vtx(Vs, ts[i][2]), Vtx(Vs, ts[i][3]))[1]]

CodecInit ==
    /\ pc = "alloc"
    /\ \E writer \in {"heightmap", "coin", "parts"}, ts \in TriLists :
          /\ arg = [writer |-> writer]
          /\ V = IF writer = "heightmap" THEN <<>> ELSE PoolV
          /\ tris = IF writer = "heightmap" THEN SoupOf(PoolV, ts) ELSE ts
    /\ mask = Idle
    /\ hist = Idle
    /\ log = <<>>
    /\ buf = Idle
    /\ o = 0
    /\ loc = Idle

\* alloc, header text, triangle count, let o = 84
CodecAlloc ==
    /\ pc = "alloc"
    /\ buf' = writeUInt32LE(writeAscii(allocSTL(Len(tris)), HeaderLen(arg.writer), 0),
                            Len(tris), 80)
    /\ o' = 84
    /\ log' = <<>>
    /\ pc' = "loop"
    /\ UNCHANGED <<arg, mask, hist, V, tris, loc>>

\* for (const t of tris): log holds the offsets the records were written at
CodecWriteTri ==
    /\ pc = "loop"
    /\ Len(log) < Len(tris)
    /\ LET t == tris[Len(log) + 1]
       IN  buf' = CASE arg.writer = "heightmap" -> WriteTriHeightmap(buf, o, t)
                    [] arg.writer = "coin"      -> WriteTriCoin(buf, o, V, t)
                    [] arg.writer = "parts"     -> WriteTriParts(buf, o, V, t)
    /\ o' = o + 50
    /\ log' = Append(log, o)
    /\ UNCHANGED <<pc, arg, mask, hist, V, tris, loc>>

\* fs.writeFileSync(outPath, out)
CodecWriteFile ==
    /\ pc = "loop"
    /\ Len(log) = Len(tris)
    /\ pc' = "written"
    /\ UNCHANGED <<arg, mask, hist, log, V, tris, buf, o, loc>>

(***************************************************************************)
(* readBinarySTL (inspect_stl.js) on the file the writer has written.      *)
(***************************************************************************)
\* Infinity, as the largest number of the model
Infinity == 2147483647

MathMin(a, b) == IF a < b THEN a ELSE b
MathMax(a, b) == IF a > b THEN a ELSE b

\* the four bytes at offset `at` are the bytes 0 .. 3 of one float32
FloatAt(b, at) ==
    /\ (at + 3) \in DOMAIN b
    /\ \A k \in 0 .. 3 : b[at + k] = <<"f32", b[at][2], k>>

\* buf.readFloatLE(at); bytes that are not one written float decode to 0 here
\* and the read is recorded as not aligned
readFloatLE(b, at) == IF FloatAt(b, at) THEN b[at][2] ELSE 0

\* the six Math.min / Math.max updates for one vertex, with the slip of
\* taking maxY where maxZ is meant
UpdateBBoxPasteSlip(bb, x, y, z) ==
    [minX |-> MathMin(bb.minX, x), minY |-> MathMin(bb.minY, y),
     minZ |-> MathMin(bb.minZ, z), maxX |-> MathMax(bb.maxX, x),
     maxY |-> MathMax(bb.maxY, y), maxZ |-> MathMax(bb.maxY, z)]

\* the six Math.min / Math.max updates for one vertex
UpdateBBox(bb, x, y, z) ==
    [minX |-> MathMin(bb.minX, x), minY |-> MathMin(bb.minY, y),
     minZ |-> MathMin(bb.minZ, z), maxX |-> MathMax(bb.maxX, x),
     maxY |-> MathMax(bb.maxY, y), maxZ |-> MathMax(bb.maxZ, z)]

\* for (let v = 0; v < 3; v++): vertex v of the record is read at o, o + 4, o + 8
RECURSIVE ReadVertices(_, _, _)
ReadVertices(b, st, v) ==
    IF v = 0 THEN st
    ELSE LET prev == ReadVertices(b, st, v - 1)
         IN  [prev EXCEPT
                !.bbox = UpdateBBox(prev.bbox, readFloatLE(b, prev.o),
                                    readFloatLE(b, prev.o + 4),
                                    readFloatLE(b, prev.o + 8)),
                !.aligned = prev.aligned /\ FloatAt(b, prev.o)
                            /\ FloatAt(b, prev.o + 4) /\ FloatAt(b, prev.o + 8),
                !.o = prev.o + 12]

\* the body of the loop over t: skip the normal, read three vertices, skip
\* the attribute bytes
ReadTri(b, st) ==
    LET skipped == [st EXCEPT !.o = st.o + 12]
        read    == ReadVertices(b, skipped, 3)
    IN  [read EXCEPT !.o = read.o + 2, !.t = read.t + 1]

CodecReadHeader ==
    /\ pc = "written"
    /\ loc' = [triCount |-> readUInt32LE(buf, 80), o |-> 84, t |-> 0,
               bbox |-> [minX |-> Infinity, minY |-> Infinity, minZ |-> Infinity,
                         maxX |-> 0 - Infinity, maxY |-> 0 - Infinity,
                         maxZ |-> 0 - Infinity],
               aligned |-> TRUE]
    /\ pc' = "read loop"
    /\ UNCHANGED <<arg, mask, hist, log, V, tris, buf, o>>

CodecReadTri ==
    /\ pc = "read loop"
    /\ loc.t < loc.triCount
    /\ loc' = ReadTri(buf, loc)
    /\ UNCHANGED <<pc, arg, mask, hist, log, V, tris, buf, o>>

CodecReadReturn ==
    /\ pc = "read loop"
    /\ ~(loc.t < loc.triCount)
    /\ pc' = "returned"
    /\ UNCHANGED <<arg, mask, hist, log, V, tris, buf, o, loc>>

CodecNext ==
    \/ CodecAlloc
    \/ CodecWriteTri
    \/ CodecWriteFile
    \/ CodecReadHeader
    \/ CodecReadTri
    \/ CodecReadReturn

SpecCodec == CodecInit /\ [][CodecNext]_vars

\* the corners and the normal of triangle i (1-based) of the list handed over
CornersOf(i) ==
    IF arg.writer = "heightmap" THEN <<tris[i].a, tris[i].b, tris[i].c>>
    ELSE <<Vtx(V, tris[i][1]), Vtx(V, tris[i][2]), Vtx(V, tris[i][3])>>

\* the float32 fields stored in the record at offset `at`
StoredFloat(at) == buf[at][2]
IsFloatAt(at) ==
    /\ buf[at][1] = "f32"
    /\ \A k \in 0 .. 3 : buf[at + k] = <<"f32", buf[at][2], k>>

StoredNormal(at) ==
    [num  |-> <<StoredFloat(at)[1], StoredFloat(at + 4)[1], StoredFloat(at + 8)[1]>>,
     len2 |-> StoredFloat(at)[2]]

StoredCorner(at, c) ==
    <<StoredFloat(at + 12 * c), StoredFloat(at + 12 * c + 4), StoredFloat(at + 12 * c + 8)>>

\* C9: the file is exactly 84 + 50 n bytes, the little-endian count at offset
\* 80 is n, triangle t fills the bytes [84 + 50 t, 84 + 50 t + 50) with twelve
\* floats (its corners, as float32, in emission order) and two zero bytes, and the cursor
\* ends at the buffer length.
C9_FileLayout ==
    pc = "written" =>
        LET n == Len(tris)
        IN  /\ DOMAIN buf = 0 .. (84 + 50 * n - 1)
            /\ readUInt32LE(buf, 80) = n
            /\ o = 84 + 50 * n
            /\ \A t \in 0 .. (n - 1) :
                  LET at == 84 + 50 * t
                  IN  /\ \A f \in 0 .. 11 : IsFloatAt(at + 4 * f)
                      /\ \A c \in 1 .. 3 : \A a \in 1 .. 3 :
                            StoredCorner(at, c)[a] = fround(CornersOf(t + 1)[c][a])
                      /\ buf[at + 48] = <<"u8", 0>> /\ buf[at + 49] = <<"u8", 0>>

\* a file of at least two triangles has been written
C9_Witness ==
    /\ pc = "written"
    /\ Len(tris) >= 2
    /\ tris[1] # tris[2]

IsZero(n) == n = <<0, 0, 0>>

\* C10 as the specification states it: every stored normal is a vector of
\* unit length (the scaled cross product, or a unit fallback when the cross
\* product is zero).
C10_StoredNormalIsUnit ==
    \A i \in 1 .. Len(log) :
        LET n == StoredNormal(log[i])
        IN  n.len2 > 0 /\ Norm2(n.num) = n.len2

\* C10 as the code has it: the stored normal of every written triangle is
\* the cross product (v1 - v0) x (v2 - v0) divided by its length when that
\* cross product is not zero, and the zero vector (0, 0, 0) when it is zero;
\* the divisor is never zero, so no component is NaN.
C10_StoredNormal ==
    \A i \in 1 .. Len(log) :
        LET n == StoredNormal(log[i])
            c == Cross(CornersOf(i)[1], CornersOf(i)[2], CornersOf(i)[3])
        IN  /\ n.len2 > 0
            /\ ~IsZero(c) => n.num = c /\ n.len2 = Norm2(c)
            /\ IsZero(c) => IsZero(n.num) /\ n.len2 = 1

\* a file holding a proper triangle, a collinear one and one with two
\* coincident corners has been written
C10_Witness ==
    /\ pc = "written"
    /\ \E i, j, k \in 1 .. Len(log) :
          /\ ~IsZero(Cross(CornersOf(i)[1], CornersOf(i)[2], CornersOf(i)[3]))
          /\ IsZero(Cross(CornersOf(j)[1], CornersOf(j)[2], CornersOf(j)[3]))
          /\ Cardinality({CornersOf(j)[1], CornersOf(j)[2], CornersOf(j)[3]}) = 3
          /\ CornersOf(k)[1] = CornersOf(k)[2]

SetMin(S) == CHOOSE x \in S : \A y \in S : x <= y
SetMax(S) == CHOOSE x \in S : \A y \in S : x >= y

\* coordinate a (1 = x, 2 = y, 3 = z) of every corner of every triangle handed
\* to the writer, as the writer stores it
WrittenCoords(a) ==
    {fround(CornersOf(i)[c][a]) : i \in 1 .. Len(tris), c \in 1 .. 3}

\* C11: for a list of n >= 1 triangles, readBinarySTL on the written buffer
\* returns triCount = n and, on each axis, the min and the max of that
\* coordinate over the 3n vertex positions as written (float32); it reads
\* nothing but whole position floats, and its cursor ends at 84 + 50 n.
C11_RoundTrip ==
    (pc = "returned" /\ Len(tris) >= 1) =>
        /\ loc.triCount = Len(tris)
        /\ loc.o = 84 + 50 * Len(tris)
        /\ loc.aligned
        /\ loc.bbox = [minX |-> SetMin(WrittenCoords(1)), maxX |-> SetMax(WrittenCoords(1)),
                       minY |-> SetMin(WrittenCoords(2)), maxY |-> SetMax(WrittenCoords(2)),
                       minZ |-> SetMin(WrittenCoords(3)), maxZ |-> SetMax(WrittenCoords(3))]

\* a file of two different triangles with non-zero normals, one of them with
\* a corner whose x is stored rounded, has been read back
C11_Witness ==
    /\ pc = "returned"
    /\ Len(tris) >= 2
    /\ loc.bbox.maxY > 0
    /\ loc.bbox.maxZ > 0
    /\ \E i \in 1 .. Len(tris), c \in 1 .. 3 :
          fround(CornersOf(i)[c][1]) # CornersOf(i)[c][1]

(***************************************************************************)
(* IEEE-754 double arithmetic, as far as the scripts need it.  A double is *)
(* the record [neg, hi, lo, e] of value (hi * 2^27 + lo) * 2^(e - 52): the *)
(* 53-bit significand is split in hi (26 bits, leading bit set) and lo (27 *)
(* bits), and e is the exponent of the leading bit.  Zero has hi = lo = 0. *)
(* Every result is rounded to nearest, ties to even.                       *)
(***************************************************************************)
Pow2(n) == 2 ^ n

\* number of bits of n: 0 for 0, k for 2^(k-1) <= n < 2^k < 2^31
BitLen(n) == Cardinality({i \in 0 .. 30 : Pow2(i) <= n})

DZero == [neg |-> FALSE, hi |-> 0, lo |-> 0, e |-> 0]

\* (H * 2^27 + L) * 2^(e - 52) with 0 <= L < 2^27 and 2^25 <= H < 2^31, and
\* `sticky` telling that the exact value lies above it by less than one unit
RoundShift(H, L, e, sticky) ==
    LET s    == BitLen(H) - 26
        hi   == H \div Pow2(s)
        lo   == (H % Pow2(s)) * Pow2(27 - s) + L \div Pow2(s)
        drop == L % Pow2(s)
        up   == IF s = 0 THEN FALSE
                ELSE \/ 2 * drop > Pow2(s)
                     \/ 2 * drop = Pow2(s) /\ (sticky \/ lo % 2 = 1)
        lo2  == IF up THEN lo + 1 ELSE lo
        hi2  == IF lo2 = Pow2(27) THEN hi + 1 ELSE hi
    IN  IF hi2 = Pow2(26)
        THEN [neg |-> FALSE, hi |-> Pow2(25), lo |-> 0, e |-> e + s + 1]
        ELSE [neg |-> FALSE, hi |-> hi2, lo |-> lo2 % Pow2(27), e |-> e + s]

\* the same for an exact value with H < 2^25: the leading bit is moved up
Normalize(H, L, e) ==
    IF H = 0 /\ L = 0 THEN DZero
    ELSE LET H1 == IF H = 0 THEN L \div 2 ELSE H
             L1 == IF H = 0 THEN (L % 2) * Pow2(26) ELSE L
             e1 == IF H = 0 THEN e - 26 ELSE e
             H2 == IF H1 = 0 THEN L1 \div 2 ELSE H1
             L2 == IF H1 = 0 THEN 0 ELSE L1
             e2 == IF H1 = 0 THEN e1 - 26 ELSE e1
             s  == 26 - BitLen(H2)
         IN  IF s <= 0 THEN RoundShift(H2, L2, e2, FALSE)
             ELSE [neg |-> FALSE,
                   hi  |-> H2 * Pow2(s) + L2 \div Pow2(27 - s),
                   lo  |-> (L2 % Pow2(27 - s)) * Pow2(s),
                   e   |-> e2 - s]

DoubleOfNat(n) == Normalize(n, 0, 25)

\* the next c bits (c <= 14) of the quotient r / d, and the remainder left
DivStep(r, d, c) == [q |-> (r * Pow2(c)) \div d, r |-> (r * Pow2(c)) % d]

\* n / d for whole numbers 0 <= n, 1 <= d < 2^16, n / d < 2^15
DivNat(n, d) ==
    IF n = 0 THEN DZero ELSE
    LET j  == IF n >= d THEN 0 ELSE BitLen(d) - BitLen(n) + 1
        n2 == n * Pow2(j)
        b  == BitLen(n2 \div d)
        c  == 29 - b
        s1 == DivStep(n2 % d, d, c \div 2)
        s2 == DivStep(s1.r, d, c - c \div 2)
        s3 == DivStep(s2.r, d, 14)
        s4 == DivStep(s3.r, d, 13)
        H  == (n2 \div d) * Pow2(c) + s1.q * Pow2(c - c \div 2) + s2.q
        L  == s3.q * Pow2(13) + s4.q
    IN  RoundShift(H, L, b - 4 - j, s4.r # 0)

\* lo * k for 0 <= lo < 2^27 and 0 <= k <= 31, as carry * 2^27 + rest
MulLow(lo, k) ==
    LET b   == (lo % Pow2(14)) * k
        mid == (lo \div Pow2(14)) * k + (b \div Pow2(14))
    IN  [carry |-> mid \div Pow2(13), rest |-> (mid % Pow2(13)) * Pow2(14) + (b % Pow2(14))]

\* k * x for a whole number 0 <= k <= 31 and a double x >= 0
MulNat(k, x) ==
    IF k = 0 \/ x.hi = 0 THEN DZero
    ELSE RoundShift(x.hi * k + MulLow(x.lo, k).carry, MulLow(x.lo, k).rest, x.e, FALSE)

\* x / 2
Half(x) == IF x.hi = 0 THEN x ELSE [x EXCEPT !.e = @ - 1]

Neg(x) == IF x.hi = 0 THEN x ELSE [x EXCEPT !.neg = ~@]

\* x < y for doubles x, y >= 0
LessMag(x, y) ==
    IF y.hi = 0 THEN FALSE
    ELSE IF x.hi = 0 THEN TRUE
    ELSE IF x.e # y.e THEN x.e < y.e
    ELSE IF x.hi # y.hi THEN x.hi < y.hi
    ELSE x.lo < y.lo

\* x - y for doubles x >= y > 0 whose exponents are at most 4 apart
SubOrdered(x, y) ==
    LET d  == x.e - y.e
        HX == x.hi * Pow2(d) + (x.lo * Pow2(d)) \div Pow2(27)
        LX == (x.lo * Pow2(d)) % Pow2(27)
        bw == IF LX < y.lo THEN 1 ELSE 0
    IN  Normalize(HX - y.hi - bw, LX - y.lo + bw * Pow2(27), y.e)

\* x - y for doubles x, y >= 0
SubMag(x, y) ==
    IF y.hi = 0 THEN x
    ELSE IF x.hi = 0 THEN Neg(y)
    ELSE IF LessMag(x, y) THEN Neg(SubOrdered(y, x))
    ELSE SubOrdered(x, y)

\* x < y for doubles of either sign
LessD(x, y) ==
    IF x.neg /\ y.neg THEN LessMag(Neg(y), Neg(x))
    ELSE IF x.neg THEN TRUE
    ELSE IF y.neg THEN FALSE
    ELSE LessMag(x, y)

\* Math.floor of a double 0 <= x < 2^26
Floor(x) == IF x.hi = 0 \/ x.e < 0 THEN 0 ELSE x.hi \div Pow2(25 - x.e)

(***************************************************************************)
(* The Color Quantizer.  A point is <<r, g, b>> with channel levels 0 or 1 *)
(* (the ends of the script's 0..1 range).  A center is kept exactly, as    *)
(* the record [s, n] of value s / n in lowest terms: the script's double   *)
(* is the rounding of that quotient, the sums of 0/1 levels being exact.   *)
(***************************************************************************)
MaxPoints == 5
MaxK == 4
DefaultIters == 10

Black == <<0, 0, 0>>
Blue  == <<0, 0, 1>>
Red   == <<1, 0, 0>>
White == <<1, 1, 1>>
Colours == {Black, Blue, Red, White}

\* luminance, in 1/10000
luminance(r, g, b) == 2126 * r + 7152 * g + 722 * b

clamp(v, lo, hi) == Max2(lo, MathMin(hi, v))

RECURSIVE Gcd(_, _)
Gcd(a, b) == IF b = 0 THEN a ELSE Gcd(b, a % b)

\* sum / count
Mean(sum, count) ==
    LET g == Gcd(Gcd(sum[1], sum[2]), Gcd(sum[3], count))
    IN  [s |-> <<sum[1] \div g, sum[2] \div g, sum[3] \div g>>, n |-> count \div g]

CenterAt(p) == [s |-> p, n |-> 1]

\* Array.prototype.sort is stable: a point goes behind the points that do
\* not compare greater
RECURSIVE InsertByLuminance(_, _)
InsertByLuminance(sorted, p) ==
    IF sorted = <<>> THEN <<p>>
    ELSE LET last == sorted[Len(sorted)]
         IN  IF luminance(last[1], last[2], last[3]) - luminance(p[1], p[2], p[3]) > 0
             THEN Append(InsertByLuminance(SubSeq(sorted, 1, Len(sorted) - 1), p), last)
             ELSE Append(sorted, p)

RECURSIVE SortByLuminance(_)
SortByLuminance(points) ==
    IF points = <<>> THEN <<>>
    ELSE InsertByLuminance(SortByLuminance(SubSeq(points, 1, Len(points) - 1)),
                           points[Len(points)])

\* Math.floor(i * (sorted.length / k)): the rank without the half step
SeedIdxNoHalf(i, len, k) == Floor(MulNat(i, DivNat(len, k)))

\* Math.floor((i + 0.5) * (sorted.length / k)), in doubles; (i + 0.5) * q is
\* ((2 i + 1) * q) / 2, and halving a double is exact
SeedIdx(i, len, k) == Floor(Half(MulNat(2 * i + 1, DivNat(len, k))))

Seeds(sorted, k) ==
    [c \in 1 .. k |->
        CenterAt(sorted[clamp(SeedIdx(c - 1, Len(sorted), k), 0, Len(sorted) - 1) + 1])]

\* squared distance dr*dr + dg*dg + db*db of a point to a center, as the
\* fraction num / den; den = 0 stands for Infinity
Dist2(p, cc) ==
    [num |-> (p[1] * cc.n - cc.s[1]) * (p[1] * cc.n - cc.s[1])
           + (p[2] * cc.n - cc.s[2]) * (p[2] * cc.n - cc.s[2])
           + (p[3] * cc.n - cc.s[3]) * (p[3] * cc.n - cc.s[3]),
     den |-> cc.n * cc.n]

InfiniteDist == [num |-> 1, den |-> 0]

\* d <= bestD, the test that lets a later center win a tie
DistLessOrEqual(d, bestD) == d.num * bestD.den <= bestD.num * d.den
\* if (d < bestD), lines 90 and 126
DistLess(d, bestD) == d.num * bestD.den < bestD.num * d.den

\* the assignment scan of kmeansDeterministic over the first c centers
RECURSIVE AssignScan(_, _, _)
AssignScan(p, centers, c) ==
    IF c = 0 THEN [best |-> 0, bestD |-> InfiniteDist]
    ELSE LET prev == AssignScan(p, centers, c - 1)
             d    == Dist2(p, centers[c])
         IN  IF DistLess(d, prev.bestD) THEN [best |-> c - 1, bestD |-> d] ELSE prev

AssignAll(points, centers) ==
    [i \in 1 .. Len(points) |-> AssignScan(points[i], centers, Len(centers)).best]

\* sum[c] after the accumulation loop: the three channel sums and the count
RECURSIVE SumOf(_, _, _, _)
SumOf(points, assign, c, i) ==
    IF i = 0 THEN <<0, 0, 0, 0>>
    ELSE LET prev == SumOf(points, assign, c, i - 1)
         IN  IF assign[i] = c
             THEN <<prev[1] + points[i][1], prev[2] + points[i][2],
                    prev[3] + points[i][3], prev[4] + 1>>
             ELSE prev

\* the recompute step with a center of no points put back to zero
RecomputeZeroEmpty(points, assign, centers, k) ==
    [c \in 1 .. k |->
        LET sum == SumOf(points, assign, c - 1, Len(points))
        IN  IF sum[4] > 0 THEN Mean(sum, sum[4]) ELSE CenterAt(<<0, 0, 0>>)]

\* lines 96-111
Recompute(points, assign, centers, k) ==
    [c \in 1 .. k |->
        LET sum == SumOf(points, assign, c - 1, Len(points))
        IN  IF sum[4] > 0 THEN Mean(sum, sum[4]) ELSE centers[c]]

\* nearestCenterIndex, the scan over the first c centers
RECURSIVE NearestScan(_, _, _)
NearestScan(p, centers, c) ==
    IF c = 0 THEN [best |-> 0, bestD |-> InfiniteDist]
    ELSE LET prev == NearestScan(p, centers, c - 1)
             d    == Dist2(p, centers[c])
         IN  IF DistLess(d, prev.bestD) THEN [best |-> c - 1, bestD |-> d] ELSE prev

nearestCenterIndex(p, centers) == NearestScan(p, centers, Len(centers)).best

(***************************************************************************)
(* kmeansDeterministic(points, k, iters) as a process: arg.calls calls in  *)
(* a row on the same arguments.  hist holds the center lists returned so   *)
(* far, log the error of a failed call.                                    *)
(***************************************************************************)
PointLists(maxLen) == UNION {[1 .. n -> Colours] : n \in 0 .. maxLen}

KMeansInit ==
    /\ pc = "call"
    /\ arg \in [points : PointLists(MaxPoints), k : 1 .. MaxK,
                iters : {DefaultIters}, calls : {1}]
    /\ loc = Idle
    /\ hist = <<>>
    /\ log = <<>>
    /\ mask = Idle /\ V = Idle /\ tris = Idle /\ buf = Idle /\ o = 0

\* where the script is once the error has been thrown: main().catch logs it
\* and exits (line 484)
AfterThrowSwallowed == "base"
AfterThrow == "thrown"

\* line 66
KMeansThrow ==
    /\ pc = "call"
    /\ Len(arg.points) = 0
    /\ pc' = AfterThrow
    /\ log' = Append(log, [error |-> "no points"])
    /\ UNCHANGED <<arg, mask, hist, V, tris, buf, o, loc>>

\* the locals of a call whose pass counter is kept from the calls before it
LocalsStaleCounter(points, k) ==
    [centers |-> Seeds(SortByLuminance(points), k),
     assign  |-> [i \in 1 .. Len(points) |-> 0],
     iter    |-> Len(hist) * DefaultIters]

\* the locals of a call when it reaches the loop of line 78
Locals(points, k) ==
    [centers |-> Seeds(SortByLuminance(points), k),
     assign  |-> [i \in 1 .. Len(points) |-> 0],
     iter    |-> 0]

\* lines 69-76
KMeansSeed ==
    /\ pc = "call"
    /\ Len(arg.points) # 0
    /\ loc' = Locals(arg.points, arg.k)
    /\ pc' = "loop"
    /\ UNCHANGED <<arg, mask, hist, log, V, tris, buf, o>>

\* lines 78-112, one pass
KMeansIterate ==
    /\ pc = "loop"
    /\ loc.iter < arg.iters
    /\ LET assign == AssignAll(arg.points, loc.centers)
       IN  loc' = [loc EXCEPT !.assign  = assign,
                              !.centers = Recompute(arg.points, assign, loc.centers, arg.k),
                              !.iter    = @ + 1]
    /\ UNCHANGED <<pc, arg, mask, hist, log, V, tris, buf, o>>

\* line 114
KMeansReturn ==
    /\ pc = "loop"
    /\ ~(loc.iter < arg.iters)
    /\ hist' = Append(hist, loc.centers)
    /\ pc' = IF Len(hist) + 1 < arg.calls THEN "call" ELSE "done"
    /\ loc' = Idle
    /\ UNCHANGED <<arg, mask, log, V, tris, buf, o>>

KMeansNext ==
    \/ KMeansThrow
    \/ KMeansSeed
    \/ KMeansIterate
    \/ KMeansReturn

SpecKMeans == KMeansInit /\ [][KMeansNext]_vars

(***************************************************************************)
(* main of build_xqcL_coin_parts.js: gather sample points, quantize, save  *)
(* the palette, classify every cell, write the base coin and one part per  *)
(* class.  The grid is W x W (160 in the script).  Lengths along the grid  *)
(* are kept as numerators over W of innerR: the centre of cell x lies at   *)
(* cx = originX + (x + 0.5) * px = innerR * (2 x + 1 - W) / W.             *)
(*                                                                         *)
(* The image is uniform in each of its four quadrants, with an odd number  *)
(* of pixel rows and columns (far more than W), the middle row and column  *)
(* belonging to the quadrants of u >= 0.5 and v >= 0.5: no cell of the     *)
(* grid is then sampled in the one-pixel seam where the bilinear sample    *)
(* blends two quadrants, and a sample is the colour of its quadrant.  img  *)
(* maps the quadrant 2 * [v >= 0.5] + [u >= 0.5] to its <<r, g, b, a>>.    *)
(***************************************************************************)
GridW == 6
K == 4
AlphaCut == 8
CircleCut == 995

Transparent == <<0, 0, 0, 0>>
Opaque(p) == <<p[1], p[2], p[3], 1>>
Samples == {Transparent, Opaque(Black), Opaque(Red), Opaque(Blue)}

CellCentre(Wd, x) == 2 * x + 1 - Wd

\* rr > innerR * circleCut, squared and scaled (circleCut in 1/1000)
OutsideCircle(cx, cy, Wd) ==
    1000000 * (cx * cx + cy * cy) > CircleCut * CircleCut * Wd * Wd

\* u = 0.5 + cx / (2 innerR emojiScale) and v = 0.5 - cy / (2 innerR
\* emojiScale) are passed as cx and -cy: u >= 0.5 iff cx >= 0
sampleRGBA_bilinear(img, u, v) ==
    img[(IF v >= 0 THEN 2 ELSE 0) + (IF u >= 0 THEN 1 ELSE 0)]

SampleAt(g, x, y) ==
    sampleRGBA_bilinear(g.img, CellCentre(g.W, x), 0 - CellCentre(g.W, y))

\* a < alphaCut (alphaCut in 1/100)
BelowAlphaCut(a) == 100 * a < AlphaCut

Skipped(g, x, y) ==
    \/ OutsideCircle(CellCentre(g.W, x), CellCentre(g.W, y), g.W)
    \/ BelowAlphaCut(SampleAt(g, x, y)[4])

\* lines 393-406: every second cell of every second row, row by row; n is
\* the number of the cells visited so far
RECURSIVE GatherScan(_, _)
GatherScan(g, n) ==
    IF n = 0 THEN <<>>
    ELSE LET perRow == (g.W + 1) \div 2
             x      == 2 * ((n - 1) % perRow)
             y      == 2 * ((n - 1) \div perRow)
             prev   == GatherScan(g, n - 1)
             rgba   == SampleAt(g, x, y)
         IN  IF Skipped(g, x, y) THEN prev
             ELSE Append(prev, <<rgba[1], rgba[2], rgba[3]>>)

GatherPoints(g) == GatherScan(g, ((g.W + 1) \div 2) * ((g.W + 1) \div 2))

\* Math.round(v * 255) clamped to 0..255, for the channel v of a center
HexChannel(s, n) == clamp((510 * s + n) \div (2 * n), 0, 255)
rgbToHex(c) == <<HexChannel(c.s[1], c.n), HexChannel(c.s[2], c.n), HexChannel(c.s[3], c.n)>>

\* luminance(...a.rgb01) - luminance(...b.rgb01) > 0
BrighterCenter(a, b) ==
    luminance(a.s[1], a.s[2], a.s[3]) * b.n > luminance(b.s[1], b.s[2], b.s[3]) * a.n

RECURSIVE InsertEntry(_, _)
InsertEntry(sorted, e) ==
    IF sorted = <<>> THEN <<e>>
    ELSE LET last == sorted[Len(sorted)]
         IN  IF BrighterCenter(last.rgb01, e.rgb01)
             THEN Append(InsertEntry(SubSeq(sorted, 1, Len(sorted) - 1), e), last)
             ELSE Append(sorted, e)

RECURSIVE SortEntries(_)
SortEntries(entries) ==
    IF entries = <<>> THEN <<>>
    ELSE InsertEntry(SortEntries(SubSeq(entries, 1, Len(entries) - 1)),
                     entries[Len(entries)])

\* lines 412-414
PaletteOfUnsorted(centers) ==
    [c \in DOMAIN centers |-> [hex |-> rgbToHex(centers[c]), rgb01 |-> centers[c]]]

PaletteOf(centers) ==
    SortEntries([c \in DOMAIN centers |-> [hex |-> rgbToHex(centers[c]), rgb01 |-> centers[c]]])

\* lines 419-444
ClassIdxOf(g, centers) ==
    [i \in 0 .. (g.W * g.W - 1) |->
        IF Skipped(g, i % g.W, i \div g.W) THEN 255
        ELSE LET rgba == SampleAt(g, i % g.W, i \div g.W)
             IN  nearestCenterIndex(<<rgba[1], rgba[2], rgba[3]>>, centers)]

InsideOf(g) ==
    [i \in 0 .. (g.W * g.W - 1) |-> IF Skipped(g, i % g.W, i \div g.W) THEN 0 ELSE 1]

\* the mask of the classes up to c instead of class c alone
ClassMaskUpTo(inside, classIdx, c) ==
    [i \in DOMAIN inside |-> IF inside[i] = 1 /\ classIdx[i] <= c THEN 1 ELSE 0]

\* lines 452-455
ClassMask(inside, classIdx, c) ==
    [i \in DOMAIN inside |-> IF inside[i] = 1 /\ classIdx[i] = c THEN 1 ELSE 0]

MainInit ==
    /\ pc = "gather"
    /\ arg \in [W : 2 .. GridW, img : [0 .. 3 -> Samples]]
    /\ loc = Idle
    /\ hist = <<>>
    /\ log = <<>>
    /\ mask = Idle /\ V = Idle /\ tris = Idle /\ buf = Idle /\ o = 0

\* lines 393-409, up to the call
MainGather ==
    /\ pc = "gather"
    /\ arg' = [W |-> arg.W, img |-> arg.img, points |-> GatherPoints(arg),
               k |-> K, iters |-> DefaultIters, calls |-> 1]
    /\ pc' = "call"
    /\ UNCHANGED <<mask, hist, log, V, tris, buf, o, loc>>

\* lines 409-416
MainPalette ==
    /\ pc = "done"
    /\ arg.k = K
    /\ LET centers == hist[Len(hist)]
       IN  /\ loc' = [centers |-> centers, palette |-> PaletteOf(centers)]
           /\ log' = Append(log, [file |-> "palette.json", K |-> K,
                                  palette |-> PaletteOf(centers)])
    /\ pc' = "classify"
    /\ UNCHANGED <<arg, mask, hist, V, tris, buf, o>>

\* lines 419-444
MainClassify ==
    /\ pc = "classify"
    /\ loc' = [centers |-> loc.centers, palette |-> loc.palette,
               classIdx |-> ClassIdxOf(arg, loc.centers), inside |-> InsideOf(arg),
               c |-> 0]
    /\ pc' = "base"
    /\ UNCHANGED <<arg, mask, hist, log, V, tris, buf, o>>

\* lines 447-448
MainBase ==
    /\ pc = "base"
    /\ log' = Append(log, [file |-> "xqcL_coin_base_60mm.stl"])
    /\ pc' = "parts"
    /\ UNCHANGED <<arg, mask, hist, V, tris, buf, o, loc>>

\* lines 451-477, one pass
MainColorPart ==
    /\ pc = "parts"
    /\ loc.c < K
    /\ LET cells == ClassMask(loc.inside, loc.classIdx, loc.c)
       IN  /\ mask' = breakDiagonalContacts(removeIsolated(cells, arg.W, arg.W), arg.W, arg.W)
           /\ log' = Append(log, [file |-> "xqcL_coin_color.stl", c |-> loc.c,
                                  cells |-> cells, mask |-> mask'])
    /\ loc' = [loc EXCEPT !.c = @ + 1]
    /\ UNCHANGED <<pc, arg, hist, V, tris, buf, o>>

\* lines 479-481
MainExit ==
    /\ pc = "parts"
    /\ ~(loc.c < K)
    /\ pc' = "exit"
    /\ UNCHANGED <<arg, mask, hist, log, V, tris, buf, o, loc>>

MainNext ==
    \/ MainGather
    \/ KMeansThrow
    \/ KMeansSeed
    \/ KMeansIterate
    \/ KMeansReturn
    \/ MainPalette
    \/ MainClassify
    \/ MainBase
    \/ MainColorPart
    \/ MainExit

SpecMain == MainInit /\ [][MainNext]_vars

(***************************************************************************)
(* Claims about the palette and the parts pipeline (SpecMain).             *)
(***************************************************************************)
IsFile(e, name) == "file" \in DOMAIN e /\ e.file = name

WrittenFiles == {i \in DOMAIN log : "file" \in DOMAIN log[i]}

Occurrences(seq, v) == Cardinality({j \in DOMAIN seq : seq[j] = v})

PartFiles == {i \in WrittenFiles : IsFile(log[i], "xqcL_coin_color.stl")}

\* C13 (as claimed): every cell of the mask written as color part c has, as
\* its nearest center, entry c of the palette written to palette.json.
C13_PaletteIndexAgree ==
    \A i \in PartFiles :
        \A cell \in DOMAIN log[i].mask :
            log[i].mask[cell] = 1 =>
                loc.centers[loc.classIdx[cell] + 1] = log[1].palette[log[i].c + 1].rgb01

\* C14: a run whose gathered point list is empty gets no further than the
\* call of kmeansDeterministic, which throws, and no file has been written:
\* neither palette.json, nor the base STL, nor a color part.
C14_EmptyInputNoOutput ==
    ("points" \in DOMAIN arg /\ Len(arg.points) = 0) =>
        /\ pc \in {"call", "thrown"}
        /\ WrittenFiles = {}
        /\ pc = "thrown" => log = <<[error |-> "no points"]>>

\* kmeansDeterministic has thrown on the empty point list of a run of main
C14_Witness ==
    /\ pc = "thrown"
    /\ "img" \in DOMAIN arg
    /\ Len(arg.points) = 0
    /\ log = <<[error |-> "no points"]>>

(***************************************************************************)
(* resampleNearestAlpha followed by buildWatertightHeightmapSTL, chained   *)
(* as main of build_xqcL_stl.js chains them, for source and target grids   *)
(* of at least one row and one column.  The vertex positions are doubles;  *)
(* heights are whole millimetres.  Not-a-number is NaN as an array value   *)
(* or index, and DNaN as a coordinate.  V holds the corners given to       *)
(* addTri, by the loop that emits them, with the position of every column  *)
(* and row, and tris counts the triangles.                                 *)
(***************************************************************************)
\* target grids have at most MaxGrid columns and rows (256 x 256 in main)
MaxGrid == 12
NaN == 0 - 1
DNaN == [neg |-> FALSE, hi |-> Pow2(25) + 1, lo |-> 0, e |-> 1024]

\* Math.floor((x / (newW - 1)) * (w - 1)); x / 0 is 0 / 0 here
SourceIndex(x, newW, w) ==
    IF newW = 1 THEN NaN ELSE Floor(MulNat(w - 1, DivNat(x, newW - 1)))

\* lines 27-37; alpha[NaN] is undefined, stored in the Float32Array as NaN
resampleNearestAlpha(alpha, w, h, newW, newH) ==
    [i \in 0 .. (newW * newH - 1) |->
        LET sy == SourceIndex(i \div newW, newH, h)
            sx == SourceIndex(i % newW, newW, w)
        IN  IF sy = NaN \/ sx = NaN THEN NaN ELSE alpha[sy * w + sx]]

\* line 200: clamp(Math.round(v), 0, 255) stored in a Uint8Array, NaN as 0
ToUint8(v) == IF v = NaN THEN 0 ELSE clamp(v, 0, 255)

\* x * dx alone, the position without the centring term cx
CoordDUncentred(T, n, x) ==
    IF n = 1 THEN DNaN ELSE MulNat(x, DivNat(T, n - 1))

\* x * dx - cx with dx = targetWidthMM / (n - 1) and cx = (n - 1) * dx / 2;
\* for n = 1, dx is Infinity and cx = 0 * Infinity / 2 is NaN
CoordD(T, n, x) ==
    IF n = 1 THEN DNaN
    ELSE SubMag(MulNat(x, DivNat(T, n - 1)), Half(MulNat(n - 1, DivNat(T, n - 1))))

\* the table of line 68 or 69: position of every column (row) of an axis of n
CoordTable(T, n) == [x \in 0 .. (n - 1) |-> CoordD(T, n, x)]

\* lines 66-71: a corner is column, row and height; its position is
\* <<V.xs[column], V.ys[row], height>>
VD(x, y, z) == <<x, y, z>>

\* lines 74-90
TopCorners(g) ==
    {VD(x + a, y + b, zTop(g, (y + b) * g.w + (x + a))) :
        x \in 0 .. (g.w - 2), y \in 0 .. (g.h - 2), a \in {0, 1}, b \in {0, 1}}

\* lines 93-104
BottomCorners(g) ==
    {VD(x + a, y + b, zBot) :
        x \in 0 .. (g.w - 2), y \in 0 .. (g.h - 2), a \in {0, 1}, b \in {0, 1}}

\* lines 108-117: the four corners of a wall segment
WallCorners(x0, y0, x1, y1, zTop0, zTop1) ==
    {VD(x0, y0, zBot), VD(x1, y1, zBot), VD(x1, y1, zTop1), VD(x0, y0, zTop0)}

\* lines 119-144
SideCorners(g) ==
    UNION (  {WallCorners(x, 0, x + 1, 0, zTop(g, x), zTop(g, x + 1)) :
                 x \in 0 .. (g.w - 2)}
        \cup {WallCorners(x + 1, g.h - 1, x, g.h - 1,
                          zTop(g, (g.h - 1) * g.w + x + 1), zTop(g, (g.h - 1) * g.w + x)) :
                 x \in 0 .. (g.w - 2)}
        \cup {WallCorners(0, y + 1, 0, y, zTop(g, (y + 1) * g.w), zTop(g, y * g.w)) :
                 y \in 0 .. (g.h - 2)}
        \cup {WallCorners(g.w - 1, y, g.w - 1, y + 1,
                          zTop(g, y * g.w + g.w - 1), zTop(g, (y + 1) * g.w + g.w - 1)) :
                 y \in 0 .. (g.h - 2)} )

\* triangles pushed by the loops of lines 74-144
TriangleCount(g) == 4 * (g.w - 1) * (g.h - 1) + 4 * (g.w - 1) + 4 * (g.h - 1)

ReliefInit ==
    /\ pc = "resample"
    /\ \E w \in 1 .. 2, h \in 1 .. 2, newW \in 1 .. MaxGrid, newH \in 1 .. MaxGrid :
          \E alpha \in AlphaGrids(w, h) :
              arg = [alpha |-> alpha, width |-> w, height |-> h, W |-> newW, H |-> newH,
                     targetWidthMM |-> TargetWidthMM, baseThicknessMM |-> 2,
                     reliefHeightMM |-> 6]
    /\ loc = Idle
    /\ V = Idle
    /\ tris = 0
    /\ mask = Idle /\ hist = Idle /\ log = Idle /\ buf = Idle /\ o = 0

\* line 196
ReliefResample ==
    /\ pc = "resample"
    /\ loc' = [a2 |-> resampleNearestAlpha(arg.alpha, arg.width, arg.height, arg.W, arg.H)]
    /\ pc' = "round"
    /\ UNCHANGED <<arg, mask, hist, log, V, tris, buf, o>>

\* lines 199-200
ReliefToUint8 ==
    /\ pc = "round"
    /\ loc' = [a2 |-> loc.a2, a2u |-> [i \in DOMAIN loc.a2 |-> ToUint8(loc.a2[i])]]
    /\ pc' = "build"
    /\ UNCHANGED <<arg, mask, hist, log, V, tris, buf, o>>

\* lines 202-209
ReliefBuild ==
    /\ pc = "build"
    /\ LET g == [alpha |-> loc.a2u, w |-> arg.W, h |-> arg.H,
                 targetWidthMM |-> arg.targetWidthMM,
                 baseThicknessMM |-> arg.baseThicknessMM,
                 reliefHeightMM |-> arg.reliefHeightMM]
       IN  /\ V' = [xs |-> CoordTable(g.targetWidthMM, g.w),
                    ys |-> CoordTable(g.targetWidthMM, g.h),
                    top |-> TopCorners(g), bottom |-> BottomCorners(g),
                    side |-> SideCorners(g)]
           /\ tris' = TriangleCount(g)
    /\ pc' = "built"
    /\ UNCHANGED <<arg, mask, hist, log, buf, o, loc>>

ReliefNext ==
    \/ ReliefResample
    \/ ReliefToUint8
    \/ ReliefBuild

SpecRelief == ReliefInit /\ [][ReliefNext]_vars

\* the grid handed to the builder is at least 2 x 2 with alpha 255 everywhere
OpaqueBuilt ==
    /\ pc = "built"
    /\ arg.W >= 2 /\ arg.H >= 2
    /\ \A i \in DOMAIN loc.a2u : loc.a2u[i] = 255

ReliefCorners == V.top \cup V.bottom \cup V.side

\* (n - 1) * dx, which lines 68-69 halve to cx and cy
Span(T, n) == MulNat(n - 1, DivNat(T, n - 1))

\* doubles of one sign and exponent that are equal or next to each other
Adjacent(x, y) ==
    /\ x.neg = y.neg /\ x.e = y.e
    /\ \/ x.hi = y.hi /\ x.lo - y.lo \in {0 - 1, 0, 1}
       \/ x.hi = y.hi + 1 /\ x.lo = 0 /\ y.lo = Pow2(27) - 1
       \/ y.hi = x.hi + 1 /\ y.lo = 0 /\ x.lo = Pow2(27) - 1

\* the positions tab of one axis of n columns lies in [-Span/2, +Span/2],
\* both ends taken, and Span is targetWidthMM or a double next to it
AxisRange(tab, T, n) ==
    /\ tab[0] = Neg(Half(Span(T, n)))
    /\ tab[n - 1] = Half(Span(T, n))
    /\ \A x \in 0 .. (n - 1) : ~LessD(tab[x], tab[0]) /\ ~LessD(tab[n - 1], tab[x])
    /\ Adjacent(Span(T, n), DoubleOfNat(T))

\* C15 (as stated): a source or target grid dimension below 2 is rejected
\* before use: neither resampleNearestAlpha returns a grid for it nor does
\* the heightfield builder emit a triangle.
C15_DimensionRejected ==
    (arg.width < 2 \/ arg.height < 2 \/ arg.W < 2 \/ arg.H < 2) =>
        (pc = "resample" /\ tris = 0)

\* C18: an opaque grid of at least 2 x 2 has every top corner at
\* baseThicknessMM + reliefHeightMM, heights spanning exactly 0 and that
\* value, and on each axis positions spanning [-Span/2, +Span/2], where
\* Span = (n - 1) * (targetWidthMM / (n - 1)) in doubles is targetWidthMM or
\* a double next to it; a 2 x 2 image resampled to 4 x 4 with 60, 2 and 6
\* spans exactly [-30, 30] on both axes and [0, 8] in height.
C18_OpaqueRelief ==
    OpaqueBuilt =>
        /\ V.top # {}
        /\ \A c \in V.top : c[3] = arg.baseThicknessMM + arg.reliefHeightMM
        /\ {c[3] : c \in ReliefCorners} = {0, arg.baseThicknessMM + arg.reliefHeightMM}
        /\ \A c \in ReliefCorners : c[1] \in 0 .. (arg.W - 1) /\ c[2] \in 0 .. (arg.H - 1)
        /\ {c[1] : c \in ReliefCorners} = 0 .. (arg.W - 1)
        /\ {c[2] : c \in ReliefCorners} = 0 .. (arg.H - 1)
        /\ AxisRange(V.xs, arg.targetWidthMM, arg.W)
        /\ AxisRange(V.ys, arg.targetWidthMM, arg.H)
        /\ (arg.width = 2 /\ arg.height = 2 /\ arg.W = 4 /\ arg.H = 4) =>
              /\ V.xs[0] = Neg(DoubleOfNat(30)) /\ V.xs[3] = DoubleOfNat(30)
              /\ V.ys[0] = Neg(DoubleOfNat(30)) /\ V.ys[3] = DoubleOfNat(30)
              /\ {c[3] : c \in ReliefCorners} = {0, 8}

\* an opaque 12 x 4 grid is built: 11 * (60 / 11) is not 60, 3 * (60 / 3) is
C18_Witness ==
    /\ OpaqueBuilt
    /\ arg.W = 12 /\ arg.H = 4
    /\ V.xs[11] # DoubleOfNat(30)
    /\ V.ys[3] = DoubleOfNat(30)
    /\ tris = TriangleCount([w |-> 12, h |-> 4])

\* C18 (as stated): the positions span exactly [-targetWidthMM/2, +targetWidthMM/2]
C18_ExactHalfWidth ==
    OpaqueBuilt =>
        /\ V.xs[0] = Neg(Half(DoubleOfNat(arg.targetWidthMM)))
        /\ V.xs[arg.W - 1] = Half(DoubleOfNat(arg.targetWidthMM))
        /\ V.ys[0] = Neg(Half(DoubleOfNat(arg.targetWidthMM)))
        /\ V.ys[arg.H - 1] = Half(DoubleOfNat(arg.targetWidthMM))

(***************************************************************************)
(* Two calls of kmeansDeterministic in a row on the same arguments.        *)
(***************************************************************************)
MaxRerunPoints == 3

RerunInit ==
    /\ pc = "call"
    /\ arg \in [points : PointLists(MaxRerunPoints), k : 1 .. MaxK,
                iters : {DefaultIters}, calls : {2}]
    /\ loc = Idle
    /\ hist = <<>>
    /\ log = <<>>
    /\ mask = Idle /\ V = Idle /\ tris = Idle /\ buf = Idle /\ o = 0

SpecRerun == RerunInit /\ [][KMeansNext]_vars

WithinTolerance(cc, p) ==
    LET d == Dist2(p, cc)
    IN  1000000 * d.num <= d.den

\* the four colours each make a group of one or more of the points
FourGroups(points) == {points[i] : i \in 1 .. Len(points)} = Colours

\* C17 (as stated): for points forming the four groups, far apart and of no
\* spread, the call with k = 4 and 10 passes returns four centers that lie
\* within 1e-3 of the means of four different groups.
C17_GroupsRecovered ==
    (pc = "done" /\ arg.k = 4 /\ arg.iters = 10 /\ FourGroups(arg.points)) =>
        \E f \in [1 .. 4 -> Colours] :
            /\ {f[c] : c \in 1 .. 4} = Colours
            /\ \A c \in 1 .. 4 : WithinTolerance(hist[1][c], f[c])

\* the center at index a (0-based) is nearer to p than the one at index b
Nearer(p, centers, a, b) ==
    LET da == Dist2(p, centers[a + 1])
        db == Dist2(p, centers[b + 1])
    IN  da.num * db.den < db.num * da.den

\* the smallest index whose center is at minimal squared distance of p
LowestNearest(p, centers) ==
    CHOOSE c \in 0 .. (Len(centers) - 1) :
        /\ \A j \in 0 .. (Len(centers) - 1) : ~Nearer(p, centers, j, c)
        /\ \A j \in 0 .. (c - 1) : Nearer(p, centers, c, j)

\* two centers are at the same, minimal distance of p
TiedNearest(p, centers) ==
    \E a, b \in 0 .. (Len(centers) - 1) :
        /\ a < b
        /\ ~Nearer(p, centers, a, b) /\ ~Nearer(p, centers, b, a)
        /\ \A j \in 0 .. (Len(centers) - 1) : ~Nearer(p, centers, j, a)

\* C20: for every point and every center list the script reaches, the
\* assignment scan of kmeansDeterministic and nearestCenterIndex both give
\* the smallest index among the centers at minimal squared distance, in the
\* passes of the quantizer as in the class index of every sampled cell.
C20_LowestIndexWins ==
    /\ pc = "loop" =>
          \A p \in Colours :
              /\ AssignScan(p, loc.centers, Len(loc.centers)).best = LowestNearest(p, loc.centers)
              /\ nearestCenterIndex(p, loc.centers) = LowestNearest(p, loc.centers)
    /\ pc = "base" =>
          \A i \in DOMAIN loc.classIdx :
              loc.classIdx[i] # 255 =>
                  LET rgba == SampleAt(arg, i % arg.W, i \div arg.W)
                      p    == <<rgba[1], rgba[2], rgba[3]>>
                  IN  /\ loc.classIdx[i] = LowestNearest(p, loc.centers)
                      /\ loc.classIdx[i] = AssignScan(p, loc.centers, Len(loc.centers)).best

\* the cells are classified, and one of them is sampled at the same minimal
\* distance of two centers
C20_Witness ==
    /\ pc = "base"
    /\ \E i \in DOMAIN loc.classIdx :
          /\ loc.classIdx[i] # 255
          /\ LET rgba == SampleAt(arg, i % arg.W, i \div arg.W)
             IN  TiedNearest(<<rgba[1], rgba[2], rgba[3]>>, loc.centers)

\* the top vertices of V are those pushed first of each pair
IsTopVertex(i) == (i - 1) % 2 = 0

\* C19 (as stated): for a fully transparent image and rimWidthMM > 0, a top
\* vertex at radius below R - rimWidthMM, the centre included, is at height
\* baseThicknessMM, a top vertex at radius R - rimWidthMM or more is at
\* baseThicknessMM + rimHeightMM, every bottom vertex is at height 0 and the
\* largest vertex radius is diameterMM / 2.
C19_TransparentCoin ==
    (pc = "return" /\ arg.img.a = 0 /\ arg.rimWidthMM > 0) =>
        /\ \A i \in DOMAIN V :
              IF IsTopVertex(i)
              THEN IF V[i][1] < CoinR(arg) - arg.rimWidthMM
                   THEN V[i][3] = arg.baseThicknessMM
                   ELSE V[i][3] = arg.baseThicknessMM + arg.rimHeightMM
              ELSE V[i][3] = 0
        /\ \A i \in DOMAIN V : V[i][1] <= CoinR(arg)
        /\ \E i \in DOMAIN V : V[i][1] = CoinR(arg)

\* the points assigned to the center of index c (0-based)
AssignedTo(assign, c) == {i \in DOMAIN assign : assign[i] = c}

\* the center cc is the component-wise mean of the points of the index set S
\* (the channel levels being 0 or 1, a channel sum is a count)
IsMeanOf(cc, points, S) ==
    \A j \in 1 .. 3 :
        cc.s[j] * Cardinality(S) = cc.n * Cardinality({i \in S : points[i][j] = 1})

\* one pass has been made from the locals before to the locals after
PassMade(before, after, points, k) ==
    /\ after.iter = before.iter + 1
    /\ DOMAIN after.assign = 1 .. Len(points)
    /\ Len(after.centers) = k
    /\ \A c \in 1 .. k :
          IF AssignedTo(after.assign, c - 1) = {}
          THEN after.centers[c] = before.centers[c]
          ELSE IsMeanOf(after.centers[c], points, AssignedTo(after.assign, c - 1))

\* the most steps that are left: the seeding, arg.iters passes and the
\* return, for each call not yet returned
StepsLeft ==
    IF pc \in {"call", "loop"}
    THEN (arg.calls - Len(hist)) * (arg.iters + 2) - (IF pc = "loop" THEN loc.iter + 1 ELSE 0)
    ELSE 0

\* C21: every pass leaves a center without assigned point at its previous
\* value and moves every other center to the component-wise mean of the
\* points assigned to it in that pass; the call returns after exactly
\* arg.iters passes, never before and never later, and it ends: every step
\* lowers the number of steps left, which is never negative.
C21_PassesAndTermination ==
    [][ /\ (pc = "loop" /\ pc' = "loop") =>
             (loc.iter < arg.iters /\ PassMade(loc, loc', arg.points, arg.k))
        /\ (pc = "loop" /\ pc' # "loop") =>
             (loc.iter = arg.iters /\ pc' = "done" /\ hist' = Append(hist, loc.centers))
        /\ (pc = "call" /\ pc' = "loop") => loc'.iter = 0
        /\ StepsLeft' >= 0
        /\ StepsLeft' < StepsLeft ]_vars

\* a pass has left a center without points and averaged several points
C21_Witness ==
    /\ pc = "loop"
    /\ loc.iter >= 1
    /\ \E c \in 1 .. arg.k : AssignedTo(loc.assign, c - 1) = {}
    /\ \E c \in 1 .. arg.k :
          /\ Cardinality(AssignedTo(loc.assign, c - 1)) >= 2
          /\ loc.centers[c].n >= 2

(***************************************************************************)
(* The seeding loop of kmeansDeterministic (lines 69-74) for n points and  *)
(* k centers.  Only the ranks matter: the sorted point at rank r stands    *)
(* for r, and loc holds, per center pushed, the computed idx and the rank  *)
(* `at` of the point copied after the clamp.                               *)
(***************************************************************************)
MaxSeedN == 30
MaxSeedK == 11

SeedsInit ==
    /\ pc = "seed"
    /\ arg \in [n : 1 .. MaxSeedN, k : 1 .. MaxSeedK]
    /\ loc = <<>>
    /\ mask = Idle /\ hist = Idle /\ log = Idle /\ V = Idle /\ tris = Idle
    /\ buf = Idle /\ o = 0

\* lines 71-74, one turn of the loop
SeedsPush ==
    /\ pc = "seed"
    /\ Len(loc) < arg.k
    /\ LET rank == SeedIdx(Len(loc), arg.n, arg.k)
       IN  loc' = Append(loc, [idx |-> rank, at |-> clamp(rank, 0, arg.n - 1)])
    /\ UNCHANGED <<pc, arg, mask, hist, log, V, tris, buf, o>>

\* the loop is left at i = k
SeedsDone ==
    /\ pc = "seed"
    /\ ~(Len(loc) < arg.k)
    /\ pc' = "seeded"
    /\ UNCHANGED <<arg, mask, hist, log, V, tris, buf, o, loc>>

SeedsNext ==
    \/ SeedsPush
    \/ SeedsDone

SpecSeeds == SeedsInit /\ [][SeedsNext]_vars

\* floor((i + 0.5) * n / k) in exact arithmetic
ExactRank(i, n, k) == ((2 * i + 1) * n) \div (2 * k)

IsPowerOfTwo(k) == \E j \in 0 .. 30 : k = Pow2(j)

\* C22: the loop pushes exactly k centers; the rank computed for seed i lies
\* in [0, n - 1], so the clamp never moves it, also when k > n; it is
\* floor((i + 0.5) * n / k) or, where the rounding of n / k in doubles puts
\* the product just below a whole number, one less; it is that floor exactly
\* whenever k is a power of two (main's K = 4).
C22_SeedRanks ==
    /\ Len(loc) <= arg.k
    /\ pc = "seeded" => Len(loc) = arg.k
    /\ \A c \in 1 .. Len(loc) :
          /\ loc[c].idx \in 0 .. (arg.n - 1)
          /\ loc[c].at = loc[c].idx
          /\ loc[c].idx \in {ExactRank(c - 1, arg.n, arg.k) - 1, ExactRank(c - 1, arg.n, arg.k)}
          /\ IsPowerOfTwo(arg.k) => loc[c].idx = ExactRank(c - 1, arg.n, arg.k)

\* 30 points and 11 centers are seeded: seed 5 is taken at rank 14, while
\* 5.5 * 30 / 11 is 15
C22_Witness ==
    /\ pc = "seeded"
    /\ arg.n = 30 /\ arg.k = 11
    /\ Len(loc) = 11
    /\ loc[6].at = 14
    /\ ExactRank(5, 30, 11) = 15

\* C22 (as stated): seed i is the point at rank floor((i + 0.5) * n / k)
C22_ExactRanks ==
    \A c \in 1 .. Len(loc) : loc[c].at = ExactRank(c - 1, arg.n, arg.k)

\* the cell i lies inside the circular footprint with alpha not below the cut
Foreground(i) == ~Skipped(arg, i % arg.W, i \div arg.W)

\* the color parts written so far
Parts == {log[j] : j \in {n \in 1 .. Len(log) : "cells" \in DOMAIN log[n]}}

\* every cell set in the mask a is set in the mask b
SubMask(a, b) == \A i \in DOMAIN a : a[i] = 1 => b[i] = 1

\* C23: the K class masks built from inside and classIdx hold every
\* foreground cell exactly once and no other cell; each repair pass only
\* clears cells, so the repaired masks of the parts are subsets of their
\* class masks, pairwise disjoint and free of cells outside the foreground.
C23_MasksPartition ==
    /\ pc \in {"base", "parts", "exit"} =>
          \A i \in 0 .. (arg.W * arg.W - 1) :
              Cardinality({c \in 0 .. (K - 1) :
                              ClassMask(loc.inside, loc.classIdx, c)[i] = 1})
                  = (IF Foreground(i) THEN 1 ELSE 0)
    /\ \A e \in Parts :
          /\ e.cells = ClassMask(loc.inside, loc.classIdx, e.c)
          /\ SubMask(removeIsolated(e.cells, arg.W, arg.W), e.cells)
          /\ SubMask(e.mask, removeIsolated(e.cells, arg.W, arg.W))
          /\ \A i \in DOMAIN e.mask : e.mask[i] = 1 => Foreground(i)
    /\ \A e, f \in Parts :
          e.c # f.c => \A i \in DOMAIN e.mask : ~(e.mask[i] = 1 /\ f.mask[i] = 1)
    /\ pc = "exit" => {e.c : e \in Parts} = 0 .. (K - 1)

\* all parts are written: two of them are not empty, a repair has cleared a
\* cell, and a cell of the grid is outside the foreground
C23_Witness ==
    /\ pc = "exit"
    /\ \E e, f \in Parts :
          /\ e.c # f.c
          /\ \E i \in DOMAIN e.mask : e.mask[i] = 1
          /\ \E i \in DOMAIN f.mask : f.mask[i] = 1
    /\ \E e \in Parts : e.mask # e.cells
    /\ \E i \in 0 .. (arg.W * arg.W - 1) : ~Foreground(i)

====
